---- MODULE Spec2Model ----
(***************************************************************************)
(* A model of builder.py: the caret codec, the trust list kept in the      *)
(* trusted_urls file, the executable cache under executables/, and the     *)
(* ensure_builder_available / run_builder pipeline of BuilderManager.      *)
(*                                                                         *)
(* Strings are sequences of code points (Python's ord), so that encoding,  *)
(* domain extraction and the trust file's load/save are computed, not      *)
(* assumed.  Time is an integer number of clock ticks.                     *)
(***************************************************************************)
EXTENDS Integers, Sequences, FiniteSets, TLC

(***************************************************************************)
(* Bounds of the model.                                                    *)
(***************************************************************************)
\* The clock runs from 1 to MaxTime.
MaxTime == 2
\* prune_cache is called with max_age in 0..MaxAge.
MaxAge == 1
\* Exit codes of the spawned builder are 0..MaxExit.
MaxExit == 2

(***************************************************************************)
(* String helpers (Python str methods on sequences of code points).        *)
(***************************************************************************)
\* s[i:] for a 0-based i
DropFirst(s, n) == SubSeq(s, n + 1, Len(s))

\* s[:n]
TakeFirst(s, n) == SubSeq(s, 1, n)

\* str.startswith
StartsWith(s, p) == Len(s) >= Len(p) /\ TakeFirst(s, Len(p)) = p

\* str.endswith
EndsWith(s, p) == Len(s) >= Len(p) /\ SubSeq(s, Len(s) - Len(p) + 1, Len(s)) = p

\* the 1-based positions of s holding a code point of the set cs
Positions(s, cs) == {i \in 1..Len(s) : s[i] \in cs}

\* str.find for one character, 1-based; 0 when absent
FindChar(s, c) ==
    IF Positions(s, {c}) = {} THEN 0
    ELSE CHOOSE i \in Positions(s, {c}) : \A j \in Positions(s, {c}) : i <= j

\* str.lower on the ASCII range (the model's locators are ASCII)
LowerChar(c) == IF c \in 65..90 THEN c + 32 ELSE c

Lower(s) == [i \in 1..Len(s) |-> LowerChar(s[i])]

\* the characters str.strip() removes: space, \t, \n, \v, \f, \r, FS..US
Whitespace == {32, 9, 10, 11, 12, 13, 28, 29, 30, 31}

\* str.strip()
Strip(s) ==
    LET keep == {i \in 1..Len(s) : s[i] \notin Whitespace}
    IN  IF keep = {} THEN <<>>
        ELSE LET lo == CHOOSE i \in keep : \A j \in keep : i <= j
                 hi == CHOOSE i \in keep : \A j \in keep : j <= i
             IN  SubSeq(s, lo, hi)

\* membership in a Python list
InList(x, xs) == \E i \in 1..Len(xs) : xs[i] = x

\* the set of a list's elements
Elems(xs) == {xs[i] : i \in 1..Len(xs)}

(***************************************************************************)
(* PathBuilder._caret_encode_url                                           *)
(***************************************************************************)
\* str.isalnum: ASCII digits and letters, the alphanumerics of Latin-1, and
\* above Latin-1 the letters the inputs of the model use: U+0100, U+1000,
\* U+4E2D, U+10000.  No other character above U+00FF that the model uses is
\* alphanumeric.
IsAlnum(c) ==
    \/ c \in 48..57
    \/ c \in 65..90
    \/ c \in 97..122
    \/ c \in {170, 178, 179, 181, 185, 186, 188, 189, 190}
    \/ c \in (192..214) \cup (216..246) \cup (248..255)
    \/ c \in {256, 4096, 20013, 65536}

\* the characters of '-_`{}.~'
SafePunct == {45, 95, 96, 123, 125, 46, 126}

\* one lower-case hexadecimal digit, as format(code, 'x') gives
HexDigit_lower(d) == IF d < 10 THEN 48 + d ELSE 87 + d

\* one upper-case hexadecimal digit
HexDigit(d) == IF d < 10 THEN 48 + d ELSE 55 + d

\* format(code, '0<width>X'): at least width digits, more when code needs them
\* (a code point has at most 6 hexadecimal digits)
HexX(code, width) ==
    LET need == CHOOSE k \in 1..6 : code < 16^k /\ (k > 1 => code >= 16^(k - 1))
        n == IF need > width THEN need ELSE width
    IN  [i \in 1..n |-> HexDigit((code \div 16^(n - i)) % 16)]

EncodeChar(c) ==
    IF IsAlnum(c) \/ c \in SafePunct THEN <<c>>
    ELSE IF c <= 255 THEN <<94>> \o HexX(c, 2)
    ELSE IF c <= 4095 THEN <<94, 103>> \o HexX(c, 3)
    ELSE IF c <= 65535 THEN <<94, 104>> \o HexX(c, 4)
    ELSE IF c <= 1048575 THEN <<94, 105>> \o HexX(c, 5)
    ELSE <<94, 106>> \o HexX(c, 6)

\* PathBuilder._caret_encode_url: the characters' encodings, joined
caret_encode_url(url) ==
    LET joined[i \in 0..Len(url)] ==
            IF i = 0 THEN <<>> ELSE joined[i - 1] \o EncodeChar(url[i])
    IN  joined[Len(url)]


(***************************************************************************)
(* The locators of the model.                                              *)
(***************************************************************************)
\* "https://github.com/kstenerud/builder-test.git"
BuiltinUrl ==
    <<104,116,116,112,115,58,47,47,103,105,116,104,117,98,46,99,111,109,47,
      107,115,116,101,110,101,114,117,100,47,98,117,105,108,100,101,114,45,
      116,101,115,116,46,103,105,116>>

\* "https://example.com/test.zip"
ZipUrl ==
    <<104,116,116,112,115,58,47,47,101,120,97,109,112,108,101,46,99,111,109,
      47,116,101,115,116,46,122,105,112>>

\* "https://Example.COM/repo.git#v1": the domain of ZipUrl in another case
GitUrl ==
    <<104,116,116,112,115,58,47,47,69,120,97,109,112,108,101,46,67,79,77,47,
      114,101,112,111,46,103,105,116,35,118,49>>

\* TrustManager.builtin_trusted_urls
builtin_trusted_urls == <<BuiltinUrl>>

\* the values builder_binary takes and the arguments of the maintenance commands
Locators == {BuiltinUrl, ZipUrl, GitUrl}

\* the locators the cache API is called with directly
CacheLocators == {ZipUrl, GitUrl}

\* "https://example.com:8443/test.zip": the host of ZipUrl with a port
PortUrl ==
    <<104,116,116,112,115,58,47,47,101,120,97,109,112,108,101,46,99,111,109,58,56,52,52,51,47,116,101,115,116,46,122,105,112>>

\* "https://git@github.com/kstenerud/other.git": the host of BuiltinUrl, with
\* user information and another path
UserinfoUrl ==
    <<104,116,116,112,115,58,47,47,103,105,116,64,103,105,116,104,117,98,46,99,111,109,47,107,115,116,101,110,101,114,117,100,47,111,116,104,101,114,46,103,105,116>>

\* the arguments of --trust-yes and --trust-no when the trust list is looked
\* at alone
TrustLocators == Locators \cup {PortUrl, UserinfoUrl}

\* "/t/r", a local directory, and "file:///t/r", the file URL of it
LocalDirUrl == <<47, 116, 47, 114>>

FileDirUrl == <<102, 105, 108, 101, 58, 47, 47, 47, 116, 47, 114>>

LocalLocators == {LocalDirUrl, FileDirUrl}

\* every locator of the model that can have a cache entry
AllLocators == Locators \cup LocalLocators

\* <<url, caret_encode_url(url)>> for the model's locators, computed once
EncodedUrls == {<<u, caret_encode_url(u)>> : u \in AllLocators}

\* PathBuilder.executables_dir.  A path of the cache is the tuple of its
\* components below this directory.
executables_dir == <<>>

\* pathlib: directory / name, for a name without a separator.  An empty name
\* and the name "." add no component; every other name, ".." included, is
\* kept as it is.
PathJoin(dir, name) ==
    IF name = <<>> \/ name = <<46>> THEN dir ELSE Append(dir, name)

\* PathBuilder.get_builder_cache_dir: self.executables_dir / encoded_url.
\* The encoding holds no '/' and no '\', so it is one name.
get_builder_cache_dir(url) ==
    PathJoin(executables_dir,
             IF url \in AllLocators
             THEN (CHOOSE pr \in EncodedUrls : pr[1] = url)[2]
             ELSE caret_encode_url(url))

\* PathBuilder.get_builder_executable_path_for_url: cache_dir / "builder"
get_builder_executable_path_for_url(url) ==
    PathJoin(get_builder_cache_dir(url), <<98, 117, 105, 108, 100, 101, 114>>)

(***************************************************************************)
(* TrustManager                                                            *)
(***************************************************************************)
\* the characters urlsplit strips from the front of a URL (C0 controls, space)
C0ControlOrSpace == 0..32

\* the characters urlsplit removes anywhere in a URL: \t, \r, \n
UnsafeUrlChars == {9, 13, 10}

\* urllib.parse.scheme_chars: letters, digits and "+-."
SchemeChars == (97..122) \cup (65..90) \cup (48..57) \cup {43, 45, 46}

\* url.lstrip(C0 controls and space)
LStripC0(s) ==
    LET keep == {i \in 1..Len(s) : s[i] \notin C0ControlOrSpace}
    IN  IF keep = {} THEN <<>>
        ELSE SubSeq(s, CHOOSE i \in keep : \A j \in keep : i <= j, Len(s))

\* what urlsplit leaves of the URL once a scheme "<letter><scheme chars>:" is cut
AfterScheme(s) ==
    LET i == FindChar(s, 58)
    IN  IF /\ i > 1
           /\ s[1] \in (97..122) \cup (65..90)
           /\ \A k \in 1..(i - 1) : s[k] \in SchemeChars
        THEN DropFirst(s, i)
        ELSE s

\* urlparse(url).netloc: what follows a leading "//" up to the first of "/?#"
Netloc(url) ==
    LET cleaned == SelectSeq(LStripC0(url), LAMBDA c : c \notin UnsafeUrlChars)
        rest == AfterScheme(cleaned)
    IN  IF StartsWith(rest, <<47, 47>>)
        THEN LET body == DropFirst(rest, 2)
                 ends == Positions(body, {47, 63, 35})
                 delim == IF ends = {} THEN Len(body) + 1
                          ELSE CHOOSE i \in ends : \A j \in ends : i <= j
             IN  TakeFirst(body, delim - 1)
        ELSE <<>>

\* urlsplit raising ValueError("Invalid IPv6 URL"): one of "[" and "]" is in
\* the netloc without the other
NetlocRaises(url) ==
    (Positions(Netloc(url), {91}) = {}) /= (Positions(Netloc(url), {93}) = {})

\* <<url, urlparse(url).netloc.lower()>> for the model's locators, computed once
LocatorDomains ==
    {<<u, Lower(Netloc(u))>> : u \in TrustLocators \cup LocalLocators}

\* TrustManager._extract_domain
extract_domain(url) ==
    IF url \in TrustLocators \cup LocalLocators
    THEN (CHOOSE pr \in LocatorDomains : pr[1] = url)[2]
    ELSE Lower(Netloc(url))

\* "# Trusted URLs for builder script"
HeaderLine1 ==
    <<35,32,84,114,117,115,116,101,100,32,85,82,76,115,32,102,111,114,32,98,
      117,105,108,100,101,114,32,115,99,114,105,112,116>>

\* "# One URL per line"
HeaderLine2 ==
    <<35,32,79,110,101,32,85,82,76,32,112,101,114,32,108,105,110,101>>

\* The trusted_urls file: whether it exists, and its lines (without the "\n").
NoTrustFile == [exists |-> FALSE, lines |-> <<>>]

\* the lines all_trusted_urls keeps: stripped, not empty, not a '#' comment
LoadedLines(lines) ==
    SelectSeq([i \in 1..Len(lines) |-> Strip(lines[i])],
              LAMBDA l : l /= <<>> /\ l[1] /= 35)

\* TrustManager.all_trusted_urls, reading the file `file`
all_trusted_urls(file) ==
    IF file.exists THEN builtin_trusted_urls \o LoadedLines(file.lines)
    ELSE builtin_trusted_urls

\* TrustManager._save_trusted_urls: the file it writes
save_trusted_urls(urls) ==
    [exists |-> TRUE,
     lines  |-> <<HeaderLine1, HeaderLine2>>
                \o SelectSeq(urls, LAMBDA u : ~InList(u, builtin_trusted_urls))]

\* add_trusted_url writing the new locator alone
add_trusted_url_forgets(file, url) ==
    IF InList(url, all_trusted_urls(file)) THEN [ret |-> FALSE, file |-> file]
    ELSE [ret |-> TRUE, file |-> save_trusted_urls(<<url>>)]

\* TrustManager.add_trusted_url: [ret, file] from the file it reads
add_trusted_url(file, url) ==
    LET trusted == all_trusted_urls(file)
        user_urls == SelectSeq(trusted, LAMBDA u : ~InList(u, builtin_trusted_urls))
    IN  IF InList(url, trusted) THEN [ret |-> FALSE, file |-> file]
        ELSE [ret |-> TRUE, file |-> save_trusted_urls(Append(user_urls, url))]

\* remove_trusted_url without the test for built-in locators
remove_trusted_url_any(file, url) ==
    LET trusted == all_trusted_urls(file)
        user_urls == SelectSeq(trusted,
                         LAMBDA u : ~InList(u, builtin_trusted_urls) /\ u /= url)
    IN  IF ~InList(url, trusted) THEN [ret |-> FALSE, file |-> file]
        ELSE [ret |-> TRUE, file |-> save_trusted_urls(user_urls)]

\* remove_trusted_url writing an empty user list
remove_trusted_url_clears(file, url) ==
    IF InList(url, builtin_trusted_urls) THEN [ret |-> FALSE, file |-> file]
    ELSE IF ~InList(url, all_trusted_urls(file)) THEN [ret |-> FALSE, file |-> file]
    ELSE [ret |-> TRUE, file |-> save_trusted_urls(<<>>)]

\* TrustManager.remove_trusted_url: [ret, file] from the file it reads
remove_trusted_url(file, url) ==
    LET trusted == all_trusted_urls(file)
        user_urls == SelectSeq(trusted,
                         LAMBDA u : ~InList(u, builtin_trusted_urls) /\ u /= url)
    IN  IF InList(url, builtin_trusted_urls) THEN [ret |-> FALSE, file |-> file]
        ELSE IF ~InList(url, trusted) THEN [ret |-> FALSE, file |-> file]
        ELSE [ret |-> TRUE, file |-> save_trusted_urls(user_urls)]

\* TrustManager.is_url_trusted
is_url_trusted(file, url) ==
    \E i \in 1..Len(all_trusted_urls(file)) :
        extract_domain(url) = extract_domain(all_trusted_urls(file)[i])

\* validate_builder_url_trust printing its messages without raising
validate_prints_only(file, url) == TRUE

\* TrustManager.validate_builder_url_trust: TRUE when it returns, FALSE when it
\* raises ValueError("Untrusted URL domain: ...")
validate_builder_url_trust(file, url) == is_url_trusted(file, url)

(***************************************************************************)
(* CacheManager: the directory executables/ as a map from entry directory  *)
(* names to what is on disk there.                                         *)
(***************************************************************************)
\* the entry directory names the model's locators map to
DirNames == {get_builder_cache_dir(u) : u \in AllLocators}

\* No directory of that name.  kind is the type of <dir>/builder: "none" when
\* it does not exist, "file" for a regular file.  content is the build the file is
\* a full copy of, 0 for a truncated copy.  exec is the owner-executable bit.
NoEntry ==
    [dir |-> FALSE, kind |-> "none", content |-> 0, exec |-> FALSE,
     atime |-> 0, mtime |-> 0, ctime |-> 0]

\* the directory alone (target_path.parent.mkdir), nothing inside
EmptyDir ==
    [dir |-> TRUE, kind |-> "none", content |-> 0, exec |-> FALSE,
     atime |-> 0, mtime |-> 0, ctime |-> 0]

EmptyCache == [d \in DirNames |-> NoEntry]

\* is_builder_cached testing the entry directory, not the file in it
is_builder_cached_dir_only(c, url) == c[get_builder_cache_dir(url)].dir

\* CacheManager.is_builder_cached: builder_path.exists() and builder_path.is_file()
is_builder_cached(c, url) ==
    LET e == c[get_builder_cache_dir(url)]
    IN  (e.dir /\ e.kind /= "none") /\ e.kind = "file"

\* target_path.parent.mkdir(parents=True, exist_ok=True)
MkdirEntry(c, url) ==
    LET d == get_builder_cache_dir(url)
    IN  IF c[d].dir THEN c ELSE [c EXCEPT ![d] = EmptyDir]

\* copy2 given the entry directory as its target: the copy lands beside
\* <dir>/builder, which stays absent
Copy2_WrongTarget(c, url, src, outcome, t) ==
    [ok |-> src.exists /\ outcome = "ok", cache |-> c]

\* shutil.copy2(source_path, target_path) at time t.  src is the source file
\* [exists, content, exec, atime, mtime]; outcome is what the copy meets:
\* "ok", or "io_error" (the write fails part way and leaves a truncated file).
\* The result is [ok, cache].
Copy2(c, url, src, outcome, t) ==
    LET d == get_builder_cache_dir(url)
    IN  IF ~src.exists THEN [ok |-> FALSE, cache |-> c]
        ELSE IF outcome = "io_error"
        THEN [ok |-> FALSE,
              cache |-> [c EXCEPT ![d] =
                  [dir |-> TRUE, kind |-> "file", content |-> 0, exec |-> FALSE,
                   atime |-> t, mtime |-> t, ctime |-> t]]]
        ELSE [ok |-> TRUE,
              cache |-> [c EXCEPT ![d] =
                  [dir |-> TRUE, kind |-> "file", content |-> src.content,
                   exec |-> src.exec,
                   atime |-> src.atime, mtime |-> src.mtime, ctime |-> t]]]

\* target_path.chmod(0o755) at time t
ChmodEntry(c, url, t) ==
    LET d == get_builder_cache_dir(url)
    IN  [c EXCEPT ![d].exec = TRUE, ![d].ctime = t]

\* cache_builder_executable without its already-cached check
cache_builder_executable_overwrite(c, url, src, outcome, t) ==
    LET cp == Copy2(MkdirEntry(c, url), url, src, outcome, t)
    IN  IF cp.ok
        THEN [raised |-> FALSE, copied |-> TRUE,
              cache |-> ChmodEntry(cp.cache, url, t)]
        ELSE [raised |-> TRUE, copied |-> FALSE, cache |-> cp.cache]

\* CacheManager.cache_builder_executable as one call: [raised, copied, cache]
cache_builder_executable(c, url, src, outcome, t) ==
    IF is_builder_cached(c, url)
    THEN [raised |-> FALSE, copied |-> FALSE, cache |-> c]
    ELSE LET cp == Copy2(MkdirEntry(c, url), url, src, outcome, t)
         IN  IF cp.ok
             THEN [raised |-> FALSE, copied |-> TRUE,
                   cache |-> ChmodEntry(cp.cache, url, t)]
             ELSE [raised |-> TRUE, copied |-> FALSE, cache |-> cp.cache]

\* CacheManager._get_file_age: the file's timestamp (not an age): st_atime,
\* else st_mtime, else st_ctime, else the current time
get_file_age(e, t) ==
    IF e.atime > 0 THEN e.atime
    ELSE IF e.mtime > 0 THEN e.mtime
    ELSE IF e.ctime > 0 THEN e.ctime
    ELSE t

\* the entry directories prune_cache removes: file_age < cutoff_time
PruneRemoves(c, max_age, t) ==
    {d \in DirNames :
        /\ c[d].dir
        /\ c[d].kind /= "none"
        /\ get_file_age(c[d], t) < t - max_age}

\* CacheManager.prune_cache: [ret, cache]
prune_cache(c, max_age, t) ==
    [ret   |-> Cardinality(PruneRemoves(c, max_age, t)),
     cache |-> [d \in DirNames |->
                   IF d \in PruneRemoves(c, max_age, t) THEN NoEntry ELSE c[d]]]

\* what can go wrong with one entry while prune_cache handles it: nothing;
\* "inspect", builder_path.exists() raises (the entry directory cannot be
\* searched); "inspect_skip", the same failure on a build whose exists()
\* answers False instead; "stat", _get_file_age raises; "rmtree", rmtree
\* raises and leaves the entry as it is; "rmtree_partial", rmtree raises
\* after it removed the file, the directory stays
PruneFaults ==
    {"none", "inspect", "inspect_skip", "stat", "rmtree", "rmtree_partial"}

\* CacheManager.prune_cache, entry by entry: order is the order in which
\* executables_dir.iterdir() gives the entry directories, fault[d] is what
\* goes wrong with entry d.  is_dir() and exists() are called outside the
\* try block, so their exception leaves prune_cache; the exceptions of
\* _get_file_age and rmtree are caught, printed, and the loop goes on.
\* The result is [cache, ret, raised].
prune_cache_loop(c, max_age, t, order, fault) ==
    LET step[i \in 0..Len(order)] ==
            IF i = 0 THEN [cache |-> c, ret |-> 0, raised |-> FALSE]
            ELSE LET s == step[i - 1]
                     d == order[i]
                     e == s.cache[d]
                 IN  IF s.raised \/ ~e.dir THEN s
                     ELSE IF fault[d] = "inspect" THEN [s EXCEPT !.raised = TRUE]
                     ELSE IF fault[d] = "inspect_skip" \/ e.kind = "none" THEN s
                     ELSE IF fault[d] = "stat" THEN s
                     ELSE IF ~(get_file_age(e, t) < t - max_age) THEN s
                     ELSE IF fault[d] = "rmtree" THEN s
                     ELSE IF fault[d] = "rmtree_partial"
                     THEN [s EXCEPT !.cache[d] = EmptyDir]
                     ELSE [s EXCEPT !.cache[d] = NoEntry, !.ret = @ + 1]
    IN  step[Len(order)]

\* prune_builder_cache removing executables/ instead of the entry directory
prune_builder_cache_whole_dir(c, url) ==
    LET d == get_builder_cache_dir(url)
    IN  IF ~c[d].dir THEN [ret |-> 0, cache |-> c]
        ELSE IF c[d].kind = "none" THEN [ret |-> 0, cache |-> c]
        ELSE [ret |-> 1, cache |-> EmptyCache]

\* CacheManager.prune_builder_cache: [ret, cache]
prune_builder_cache(c, url) ==
    LET d == get_builder_cache_dir(url)
    IN  IF ~c[d].dir THEN [ret |-> 0, cache |-> c]
        ELSE IF c[d].kind = "none" THEN [ret |-> 0, cache |-> c]
        ELSE [ret |-> 1, cache |-> [c EXCEPT ![d] = NoEntry]]

\* the executables a build produces, by content
Builds == {1, 2}

\* the source files handed to cache_builder_executable at time t: a built
\* executable last read and written at some time up to t, or a missing path
SourceFiles(t) ==
    {[exists |-> TRUE, content |-> b, exec |-> TRUE, atime |-> a, mtime |-> a] :
        b \in Builds, a \in 1..t}
    \cup {[exists |-> FALSE, content |-> 0, exec |-> FALSE, atime |-> 0, mtime |-> 0]}

(***************************************************************************)
(* SourceFetcher and BuilderBuilder                                        *)
(***************************************************************************)
\* _parse_git_url splitting at the last '#' (rsplit)
parse_git_url_rsplit(url) ==
    LET ps == Positions(url, {35})
        i == IF ps = {} THEN 0 ELSE CHOOSE p \in ps : \A q \in ps : q <= p
    IN  IF i > 0 THEN <<TakeFirst(url, i - 1), TRUE, DropFirst(url, i)>>
        ELSE <<url, FALSE, <<>>>>

\* SourceFetcher._parse_git_url: <<git_url, has_reference, reference>>
parse_git_url(url) ==
    LET i == FindChar(url, 35)
    IN  IF i > 0 THEN <<TakeFirst(url, i - 1), TRUE, DropFirst(url, i)>>
        ELSE <<url, FALSE, <<>>>>

\* download_or_clone_source testing for ".git" before the local forms
FetchStrategy_GitFirst(url) ==
    IF EndsWith(parse_git_url(url)[1], <<46, 103, 105, 116>>) THEN "git"
    ELSE IF StartsWith(url, <<102, 105, 108, 101, 58, 47, 47>>) THEN "local"
    ELSE IF \/ StartsWith(url, <<47>>)
            \/ StartsWith(url, <<46, 47>>)
            \/ StartsWith(url, <<46, 46, 47>>)
            \/ (Len(url) > 1 /\ url[2] = 58)
    THEN "local"
    ELSE "archive"

\* the branch SourceFetcher.download_or_clone_source takes
FetchStrategy(url) ==
    IF StartsWith(url, <<102, 105, 108, 101, 58, 47, 47>>) THEN "local"
    ELSE IF \/ StartsWith(url, <<47>>)
            \/ StartsWith(url, <<46, 47>>)
            \/ StartsWith(url, <<46, 46, 47>>)
            \/ (Len(url) > 1 /\ url[2] = 58)
    THEN "local"
    ELSE IF EndsWith(parse_git_url(url)[1], <<46, 103, 105, 116>>) THEN "git"
    ELSE "archive"

\* SourceFetcher.download_and_extract_archive: the extensions it accepts
SupportedArchive(url) ==
    \/ EndsWith(url, <<46, 122, 105, 112>>)
    \/ EndsWith(url, <<46, 116, 97, 114, 46, 103, 122>>)
    \/ EndsWith(url, <<46, 116, 103, 122>>)

\* The scratch directory: absent, or a tree with or without a Cargo.toml and
\* with target/release/builder holding build exe (0: no such file).
NoScratch == [exists |-> FALSE, manifest |-> FALSE, exe |-> 0]

\* tempfile.TemporaryDirectory().__enter__: a fresh empty directory
EmptyScratch == [exists |-> TRUE, manifest |-> FALSE, exe |-> 0]

\* the trees a fetch can leave in the scratch directory
SourceTrees ==
    {[exists |-> TRUE, manifest |-> m, exe |-> e] :
        m \in BOOLEAN, e \in {0} \cup Builds}

\* what the network, git or the file system make of a fetch
FetchOutcomes == {"ok", "error", "interrupt"}

\* SourceFetcher.download_or_clone_source into the scratch directory:
\* [ok, err, tree]
download_or_clone_source(url, outcome, tree) ==
    IF FetchStrategy(url) = "archive" /\ ~SupportedArchive(url)
    THEN [ok |-> FALSE, err |-> "acquire_error", tree |-> EmptyScratch]
    ELSE IF outcome = "ok" THEN [ok |-> TRUE, err |-> "none", tree |-> tree]
    ELSE IF outcome = "interrupt"
    THEN [ok |-> FALSE, err |-> "acquire_interrupt", tree |-> EmptyScratch]
    ELSE [ok |-> FALSE, err |-> "acquire_error", tree |-> EmptyScratch]

\* how `cargo build --release` ends
CargoOutcomes == {"exit0", "exit1", "interrupt"}

\* build_rust_project without the returncode check: a failed cargo run passes
\* when an executable is found under target/release
build_ignoring_returncode(tree, rc, exe_after) ==
    IF ~tree.manifest
    THEN [ok |-> FALSE, cargo |-> FALSE, err |-> "no_manifest", exe |-> 0]
    ELSE IF rc = "interrupt"
    THEN [ok |-> FALSE, cargo |-> TRUE, err |-> "build_interrupt", exe |-> 0]
    ELSE IF exe_after = 0
    THEN [ok |-> FALSE, cargo |-> TRUE, err |-> "exe_missing", exe |-> 0]
    ELSE [ok |-> TRUE, cargo |-> TRUE, err |-> "none", exe |-> exe_after]

\* BuilderBuilder.build_rust_project on the scratch tree, with cargo ending rc
\* and leaving target/release/builder as exe_after: [ok, cargo, err, exe]
build_rust_project(tree, rc, exe_after) ==
    IF ~tree.manifest
    THEN [ok |-> FALSE, cargo |-> FALSE, err |-> "no_manifest", exe |-> 0]
    ELSE IF rc = "interrupt"
    THEN [ok |-> FALSE, cargo |-> TRUE, err |-> "build_interrupt", exe |-> 0]
    ELSE IF rc /= "exit0"
    THEN [ok |-> FALSE, cargo |-> TRUE, err |-> "cargo_failed", exe |-> 0]
    ELSE IF exe_after = 0
    THEN [ok |-> FALSE, cargo |-> TRUE, err |-> "exe_missing", exe |-> 0]
    ELSE [ok |-> TRUE, cargo |-> TRUE, err |-> "none", exe |-> exe_after]

\* a scratch directory made with mkdtemp and removed on the normal path only
mkdtemp_no_cleanup_on_error(tree, raised) == IF raised THEN tree ELSE NoScratch

\* tempfile.TemporaryDirectory().__exit__: the directory is removed, whether
\* the block ended normally or by an exception
TemporaryDirectoryExit(tree, raised) == NoScratch

(***************************************************************************)
(* State                                                                   *)
(***************************************************************************)
\* the invocations of the tool
Procs == {1, 2}

VARIABLES
    trust_file,  \* ~/.config/builder/trusted_urls
    cache,       \* ~/.cache/builder/executables
    now,         \* datetime.now()
    pc,          \* pc[p]: where invocation p is in run_builder
    builder_url, \* builder_url[p]: configuration.builder_url of invocation p
    scratch,     \* scratch[p]: the TemporaryDirectory of invocation p
    built,       \* built[p]: the executable build_rust_project returned, 0 if none
    result,      \* result[p]: how the call ended, "none" while it runs
    exit_code,   \* exit_code[p]: what run_builder returned, -1 if nothing
    ops,         \* ops[p]: the side effects of the call so far, in order
    env,         \* env[p]: what the fetch and cargo did in this call
    pre,         \* pre[p]: the cache and trust file when the call started
    last,        \* the last maintenance operation and what it returned
    fetcher,     \* a call of SourceFetcher.download_or_clone_source, step by step
    probe,       \* a call of TrustManager._extract_domain and what it gave
    build_call,  \* a call of BuilderBuilder.build_rust_project and what it did
    codec,       \* a call of _caret_encode_url on one or two texts
    main_call,   \* a call of main() and how it ended
    prune_cmd    \* a call of the --cache-prune-older-than handler

vars ==
    <<trust_file, cache, now, pc, builder_url, scratch, built, result, exit_code,
      ops, env, pre, last, fetcher, probe, build_call, codec, main_call,
      prune_cmd>>

callVars == <<build_call, codec, main_call, prune_cmd>>

procVars == <<pc, builder_url, scratch, built, result, exit_code, ops, env, pre>>

NoEnv ==
    [fetch |-> "none", tree |-> NoScratch, cargo |-> "none", exe |-> 0,
     copy |-> "none", child |-> -1]

NoPre == [cache |-> EmptyCache, trust_file |-> NoTrustFile]

NoLast == [op |-> "none", url |-> <<>>, ret |-> 0, arg |-> 0]

\* the file names looked at in target_dir and in the source of a fetch
DestNames == {"Cargo.toml", "README"}

\* target_dir when the fetch starts: per name, 0 when absent, 1 for a file
\* that is already there
DestTrees == [DestNames -> {0, 1}]

\* the files of a local directory or of an archive: per name, 0 when absent,
\* 2 for the file of the source
SourceContents == [DestNames -> {0, 2}]

\* a copy that puts the source in place of target_dir instead of merging
copytree_replacing(tree, dest) == tree

\* shutil.copytree(source_path, target_dir, dirs_exist_ok=True) and
\* extractall(extract_dir): the files of the source are written over what is
\* there, the other files stay

copytree(tree, dest) ==
    [n \in DestNames |-> IF tree[n] /= 0 THEN tree[n] ELSE dest[n]]

\* what a local file_path names: nothing, a regular file (an archive of
\* tree when it is one), or a directory holding tree
LocalPaths ==
    {[kind |-> "missing", tree |-> [n \in DestNames |-> 0]]}
        \cup [kind : {"file", "dir"}, tree : SourceContents]

\* SourceFetcher.SUPPORTED_ARCHIVE_FORMATS: ".zip, .tar.gz, .tgz", the text
\* every unsupported-format message ends with
SUPPORTED_ARCHIVE_FORMATS ==
    <<46, 122, 105, 112, 44, 32, 46, 116, 97, 114, 46, 103, 122, 44, 32, 46, 116, 103, 122>>

\* no call of build_rust_project is under way
NoBuildCall ==
    [pc |-> "idle", manifests |-> {}, exes |-> <<0, 0, 0>>, runs |-> <<>>,
     err |-> "none", ret |-> [dir |-> 0, exe |-> 0]]

\* no call of _caret_encode_url is under way
NoCodec ==
    [pc |-> "idle", a |-> <<>>, b |-> <<>>, ea |-> <<>>, eb |-> <<>>,
     da |-> <<>>, db |-> <<>>, xa |-> <<>>, xb |-> <<>>]

\* no call of main is under way
NoMainCall ==
    [pc |-> "idle", command |-> "none", has_param |-> FALSE, config |-> "ok",
     ensure |-> "none", spawn |-> 0, handler_raises |-> FALSE,
     ended |-> "none", code |-> -1]

\* no call of handle_cache_prune_older_command is under way
NoPruneCmd ==
    [pc |-> "idle", text |-> <<>>, ok |-> FALSE, seconds |-> 0,
     pruned |-> FALSE, code |-> -1, max_age |-> 0, order |-> <<>>,
     fault |-> <<>>, raised |-> FALSE, ret |-> 0]

\* no call of download_or_clone_source is under way
NoFetch ==
    [pc |-> "idle", url |-> <<>>, calls |-> <<>>, git |-> <<>>, err |-> "none",
     cwd |-> "original", events |-> <<>>, tmpfile |-> FALSE, msg |-> <<>>,
     before |-> [n \in DestNames |-> 0], dest |-> [n \in DestNames |-> 0],
     source |-> [kind |-> "none", tree |-> [n \in DestNames |-> 0]]]

\* _extract_domain has not been called
NoProbe == [url |-> <<>>, called |-> FALSE, raised |-> FALSE, domain |-> <<>>]

Init ==
    /\ trust_file = NoTrustFile
    /\ cache = EmptyCache
    /\ now = 1
    /\ pc = [p \in Procs |-> "idle"]
    /\ builder_url = [p \in Procs |-> <<>>]
    /\ scratch = [p \in Procs |-> NoScratch]
    /\ built = [p \in Procs |-> 0]
    /\ result = [p \in Procs |-> "none"]
    /\ exit_code = [p \in Procs |-> -1]
    /\ ops = [p \in Procs |-> <<>>]
    /\ env = [p \in Procs |-> NoEnv]
    /\ pre = [p \in Procs |-> NoPre]
    /\ last = NoLast
    /\ fetcher = NoFetch
    /\ build_call = NoBuildCall
    /\ codec = NoCodec
    /\ main_call = NoMainCall
    /\ prune_cmd = NoPruneCmd
    /\ probe = NoProbe

(***************************************************************************)
(* BuilderManager.ensure_builder_available and run_builder, step by step   *)
(***************************************************************************)
\* ensure_builder_available raises r: run_builder lets it through and main
\* prints the error and returns 1
Return(p, r) ==
    /\ pc' = [pc EXCEPT ![p] = "returned"]
    /\ result' = [result EXCEPT ![p] = r]
    /\ exit_code' = [exit_code EXCEPT ![p] = 1]

\* ensure_builder_available returned normally: run_builder goes on to the spawn
Ensured(p) ==
    /\ pc' = [pc EXCEPT ![p] = "spawn"]
    /\ UNCHANGED <<result, exit_code>>

\* Invocation p starts run_builder: builder_binary is u.
Call(p, u) ==
    /\ pc[p] = "idle"
    /\ pc' = [pc EXCEPT ![p] = "validate"]
    /\ builder_url' = [builder_url EXCEPT ![p] = u]
    /\ pre' = [pre EXCEPT ![p] =
            [cache |-> cache, trust_file |-> trust_file]]
    /\ last' = [NoLast EXCEPT !.op = "call"]
    /\ UNCHANGED <<trust_file, cache, now, scratch, built, result, exit_code,
                   ops, env>>

\* ensure_builder_available validating only inside the cache-miss branch
Validate_OnMissOnly(p) ==
    /\ pc[p] = "validate"
    /\ IF is_builder_cached(cache, builder_url[p])
       THEN /\ pc' = [pc EXCEPT ![p] = "spawn"]
            /\ UNCHANGED <<result, exit_code, ops>>
       ELSE /\ ops' = [ops EXCEPT ![p] = Append(@, "validate")]
            /\ IF validate_builder_url_trust(trust_file, builder_url[p])
               THEN /\ pc' = [pc EXCEPT ![p] = "check_cache"]
                    /\ UNCHANGED <<result, exit_code>>
               ELSE Return(p, "trust_error")
    /\ UNCHANGED <<trust_file, cache, now, builder_url, scratch, built, env, pre,
                   last>>

\* trust_manager.validate_builder_url_trust(builder_url)
Validate(p) ==
    /\ pc[p] = "validate"
    /\ ops' = [ops EXCEPT ![p] = Append(@, "validate")]
    /\ IF validate_builder_url_trust(trust_file, builder_url[p])
       THEN /\ pc' = [pc EXCEPT ![p] = "check_cache"]
            /\ UNCHANGED <<result, exit_code>>
       ELSE Return(p, "trust_error")
    /\ UNCHANGED <<trust_file, cache, now, builder_url, scratch, built, env, pre,
                   last>>

\* ensure_builder_available without the is_builder_cached test
CheckCache_AlwaysFetch(p) ==
    /\ pc[p] = "check_cache"
    /\ pc' = [pc EXCEPT ![p] = "acquire"]
    /\ scratch' = [scratch EXCEPT ![p] = EmptyScratch]
    /\ ops' = [ops EXCEPT ![p] = Append(@, "mkdtemp")]
    /\ UNCHANGED <<trust_file, cache, now, builder_url, built, env, pre, last,
                   result, exit_code>>

\* if not is_builder_cached(builder_url): with tempfile.TemporaryDirectory()
CheckCache(p) ==
    /\ pc[p] = "check_cache"
    /\ IF is_builder_cached(cache, builder_url[p])
       THEN /\ Ensured(p)
            /\ UNCHANGED <<scratch, ops>>
       ELSE /\ pc' = [pc EXCEPT ![p] = "acquire"]
            /\ scratch' = [scratch EXCEPT ![p] = EmptyScratch]
            /\ ops' = [ops EXCEPT ![p] = Append(@, "mkdtemp")]
            /\ UNCHANGED <<result, exit_code>>
    /\ UNCHANGED <<trust_file, cache, now, builder_url, built, env, pre, last>>

\* a fetch that is tried again after an error
Acquire_Retry(p) ==
    /\ pc[p] = "acquire"
    /\ \E outcome \in FetchOutcomes, tree \in SourceTrees :
          LET r == download_or_clone_source(builder_url[p], outcome, tree)
          IN  /\ (outcome /= "ok" => tree = EmptyScratch)
              /\ env' = [env EXCEPT ![p].fetch = outcome]
              /\ ops' = [ops EXCEPT ![p] = Append(@, "acquire")]
              /\ IF r.ok
                 THEN /\ pc' = [pc EXCEPT ![p] = "build"]
                      /\ scratch' = [scratch EXCEPT ![p] = r.tree]
                 ELSE /\ Len(ops[p]) < 4
                      /\ UNCHANGED <<pc, scratch>>
    /\ UNCHANGED <<trust_file, cache, now, builder_url, built, pre, last, result,
                   exit_code>>

\* source_fetcher.download_or_clone_source(builder_url, temp_path)
Acquire(p) ==
    /\ pc[p] = "acquire"
    /\ \E outcome \in FetchOutcomes, tree \in SourceTrees :
          LET r == download_or_clone_source(builder_url[p], outcome, tree)
          IN  /\ (outcome /= "ok" => tree = EmptyScratch)
              /\ env' = [env EXCEPT ![p].fetch = outcome, ![p].tree = r.tree]
              /\ IF r.ok
                 THEN /\ pc' = [pc EXCEPT ![p] = "build"]
                      /\ scratch' = [scratch EXCEPT ![p] = r.tree]
                      /\ ops' = [ops EXCEPT ![p] = Append(@, "acquire")]
                      /\ UNCHANGED <<result, exit_code>>
                 ELSE /\ Return(p, r.err)
                      /\ scratch' = [scratch EXCEPT ![p] =
                              TemporaryDirectoryExit(r.tree, TRUE)]
                      /\ ops' = [ops EXCEPT ![p] = @ \o <<"acquire", "rmtree">>]
    /\ UNCHANGED <<trust_file, cache, now, builder_url, built, pre, last>>

\* builder_builder.build_rust_project(temp_path)
Build(p) ==
    /\ pc[p] = "build"
    /\ \E rc \in CargoOutcomes, e \in {0} \cup Builds :
          LET tree == scratch[p]
              exe_after == IF rc = "exit0" THEN e ELSE tree.exe
              r == build_rust_project(tree, rc, exe_after)
          IN  \* cargo does not delete a target/release/builder it finds
              /\ (tree.exe /= 0 => e /= 0)
              /\ (~r.cargo => rc = "exit1" /\ e = tree.exe)
              /\ (rc /= "exit0" => e = tree.exe)
              /\ env' = [env EXCEPT ![p].cargo = IF r.cargo THEN rc ELSE "none",
                                    ![p].exe = IF r.cargo THEN exe_after ELSE 0]
              /\ IF r.ok
                 THEN /\ pc' = [pc EXCEPT ![p] = "store"]
                      /\ built' = [built EXCEPT ![p] = r.exe]
                      /\ scratch' = [scratch EXCEPT ![p].exe = exe_after]
                      /\ ops' = [ops EXCEPT ![p] = Append(@, "cargo")]
                      /\ UNCHANGED <<result, exit_code>>
                 ELSE /\ Return(p, r.err)
                      /\ scratch' = [scratch EXCEPT ![p] =
                              TemporaryDirectoryExit(tree, TRUE)]
                      /\ ops' = [ops EXCEPT ![p] =
                              @ \o (IF r.cargo THEN <<"cargo">> ELSE <<>>)
                                \o <<"rmtree">>]
                      /\ UNCHANGED built
    /\ UNCHANGED <<trust_file, cache, now, builder_url, pre, last>>

\* cache_manager.cache_builder_executable(builder_executable, builder_url):
\* the already-cached check and the mkdir
StoreCheck(p) ==
    /\ pc[p] = "store"
    /\ IF is_builder_cached(cache, builder_url[p])
       THEN /\ Ensured(p)
            /\ scratch' = [scratch EXCEPT ![p] =
                    TemporaryDirectoryExit(scratch[p], FALSE)]
            /\ ops' = [ops EXCEPT ![p] = @ \o <<"store", "rmtree">>]
            /\ UNCHANGED cache
       ELSE /\ pc' = [pc EXCEPT ![p] = "store_copy"]
            /\ cache' = MkdirEntry(cache, builder_url[p])
            /\ ops' = [ops EXCEPT ![p] = @ \o <<"store", "mkdir">>]
            /\ UNCHANGED <<scratch, result, exit_code>>
    /\ UNCHANGED <<trust_file, now, builder_url, built, env, pre, last>>

\* a copy that leaves alone a complete file another invocation has written
StoreCopy_keeps_other(p) ==
    /\ pc[p] = "store_copy"
    /\ \E outcome \in {"ok", "io_error"}, a \in 1..now :
          LET src == [exists |-> TRUE, content |-> built[p], exec |-> TRUE,
                      atime |-> a, mtime |-> a]
              cp == Copy2(cache, builder_url[p], src, outcome, now)
          IN  /\ (outcome /= "ok" => a = now)
              /\ env' = [env EXCEPT ![p].copy = outcome]
              /\ cache' = IF cache[get_builder_cache_dir(builder_url[p])].content /= 0
                          THEN cache ELSE cp.cache
              /\ IF cp.ok
                 THEN /\ pc' = [pc EXCEPT ![p] = "store_chmod"]
                      /\ ops' = [ops EXCEPT ![p] = Append(@, "copy2")]
                      /\ UNCHANGED <<scratch, result, exit_code>>
                 ELSE /\ Return(p, "copy_error")
                      /\ scratch' = [scratch EXCEPT ![p] =
                              TemporaryDirectoryExit(scratch[p], TRUE)]
                      /\ ops' = [ops EXCEPT ![p] = @ \o <<"copy2", "rmtree">>]
    /\ UNCHANGED <<trust_file, now, builder_url, built, pre, last>>

\* cache_builder_executable: shutil.copy2(source_path, target_path)
StoreCopy(p) ==
    /\ pc[p] = "store_copy"
    /\ \E outcome \in {"ok", "io_error"}, a \in 1..now :
          LET src == [exists |-> TRUE, content |-> built[p], exec |-> TRUE,
                      atime |-> a, mtime |-> a]
              cp == Copy2(cache, builder_url[p], src, outcome, now)
          IN  /\ (outcome /= "ok" => a = now)
              /\ env' = [env EXCEPT ![p].copy = outcome]
              /\ cache' = cp.cache
              /\ IF cp.ok
                 THEN /\ pc' = [pc EXCEPT ![p] = "store_chmod"]
                      /\ ops' = [ops EXCEPT ![p] = Append(@, "copy2")]
                      /\ UNCHANGED <<scratch, result, exit_code>>
                 ELSE /\ Return(p, "copy_error")
                      /\ scratch' = [scratch EXCEPT ![p] =
                              TemporaryDirectoryExit(scratch[p], TRUE)]
                      /\ ops' = [ops EXCEPT ![p] = @ \o <<"copy2", "rmtree">>]
    /\ UNCHANGED <<trust_file, now, builder_url, built, pre, last>>

\* cache_builder_executable: target_path.chmod(0o755), then the with block ends
StoreChmod(p) ==
    /\ pc[p] = "store_chmod"
    /\ cache' = ChmodEntry(cache, builder_url[p], now)
    /\ scratch' = [scratch EXCEPT ![p] = TemporaryDirectoryExit(scratch[p], FALSE)]
    /\ ops' = [ops EXCEPT ![p] = @ \o <<"chmod", "rmtree">>]
    /\ Ensured(p)
    /\ UNCHANGED <<trust_file, now, builder_url, built, env, pre, last>>

\* what the operating system makes of the spawn of an existing executable
\* file: -1 when it raises OSError, else the exit code of the child
SpawnOutcomes == -1..MaxExit

\* run_builder without its except clauses: the exception of subprocess.run
\* leaves run_builder
run_builder_uncaught(found, exec, o) ==
    IF found /\ exec /\ o /= -1
    THEN [result |-> "exited", started |-> TRUE, exit_code |-> o]
    ELSE [result |-> "unhandled", started |-> FALSE, exit_code |-> -1]

\* run_builder after ensure_builder_available: subprocess.run(..., check=False)
\* on a builder_path that is found or not and executable or not, the spawn
\* ending as o.  result.returncode is returned as it is; FileNotFoundError
\* and every other Exception are caught and 1 is returned.
run_builder(found, exec, o) ==
    IF ~found
    THEN [result |-> "not_found", started |-> FALSE, exit_code |-> 1]
    ELSE IF ~exec \/ o = -1
    THEN [result |-> "spawn_error", started |-> FALSE, exit_code |-> 1]
    ELSE [result |-> "exited", started |-> TRUE, exit_code |-> o]

\* run_builder: subprocess.run([str(builder_path)] + args, check=False)
Spawn(p) ==
    /\ pc[p] = "spawn"
    /\ \E o \in SpawnOutcomes :
          LET e == cache[get_builder_cache_dir(builder_url[p])]
              found == e.dir /\ e.kind = "file"
              r == run_builder(found, e.exec, o)
          IN  /\ (~(found /\ e.exec) => o = -1)
              /\ ops' = [ops EXCEPT ![p] =
                      IF r.started THEN Append(@, "spawn") ELSE @]
              /\ result' = [result EXCEPT ![p] = r.result]
              /\ exit_code' = [exit_code EXCEPT ![p] = r.exit_code]
              /\ env' = [env EXCEPT ![p].child = IF r.started THEN o ELSE -1]
    /\ pc' = [pc EXCEPT ![p] = "returned"]
    /\ UNCHANGED <<trust_file, cache, now, builder_url, scratch, built, pre,
                   last>>

\* The invocation exits.
Finish(p) ==
    /\ pc[p] = "returned"
    /\ pc' = [pc EXCEPT ![p] = "idle"]
    /\ builder_url' = [builder_url EXCEPT ![p] = <<>>]
    /\ scratch' = [scratch EXCEPT ![p] = NoScratch]
    /\ built' = [built EXCEPT ![p] = 0]
    /\ result' = [result EXCEPT ![p] = "none"]
    /\ exit_code' = [exit_code EXCEPT ![p] = -1]
    /\ ops' = [ops EXCEPT ![p] = <<>>]
    /\ env' = [env EXCEPT ![p] = NoEnv]
    /\ pre' = [pre EXCEPT ![p] = NoPre]
    /\ UNCHANGED <<trust_file, cache, now, last>>

\* the steps of run_builder once it is called
Run(p) ==
    \/ Validate(p)
    \/ CheckCache(p)
    \/ Acquire(p)
    \/ Build(p)
    \/ StoreCheck(p)
    \/ StoreCopy(p)
    \/ StoreChmod(p)
    \/ Spawn(p)
    \/ Finish(p)

Step(p) ==
    \/ \E u \in Locators : Call(p, u)
    \/ Run(p)

(***************************************************************************)
(* The maintenance commands and direct calls of the cache and trust API    *)
(***************************************************************************)
\* --trust-yes <url>: trust_manager.add_trusted_url(url)
AddTrust(u) ==
    LET r == add_trusted_url(trust_file, u)
    IN  /\ trust_file' = r.file
        /\ last' = [op |-> "add", url |-> u, ret |-> IF r.ret THEN 1 ELSE 0,
                    arg |-> 0]
        /\ UNCHANGED <<cache, now, procVars>>

\* --trust-no <url>: trust_manager.remove_trusted_url(url)
RemoveTrust(u) ==
    LET r == remove_trusted_url(trust_file, u)
    IN  /\ trust_file' = r.file
        /\ last' = [op |-> "remove", url |-> u, ret |-> IF r.ret THEN 1 ELSE 0,
                    arg |-> 0]
        /\ UNCHANGED <<cache, now, procVars>>

\* cache_manager.cache_builder_executable(source_path, url); ret is 1 when it
\* copied, 0 when the entry was already cached, -1 when it raised
StoreApi(u, src, outcome) ==
    LET r == cache_builder_executable(cache, u, src, outcome, now)
    IN  /\ cache' = r.cache
        /\ last' = [op |-> "store", url |-> u,
                    ret |-> IF r.raised THEN -1 ELSE IF r.copied THEN 1 ELSE 0,
                    arg |-> src.content]
        /\ UNCHANGED <<trust_file, now, procVars>>

\* --cache-prune-older-than: cache_manager.prune_cache(max_age)
PruneCache(max_age) ==
    LET r == prune_cache(cache, max_age, now)
    IN  /\ cache' = r.cache
        /\ last' = [op |-> "prune_cache", url |-> <<>>, ret |-> r.ret,
                    arg |-> max_age]
        /\ UNCHANGED <<trust_file, now, procVars>>

\* --cache-prune-builder <url>: cache_manager.prune_builder_cache(url)
PruneBuilder(u) ==
    LET r == prune_builder_cache(cache, u)
    IN  /\ cache' = r.cache
        /\ last' = [op |-> "prune_builder", url |-> u, ret |-> r.ret, arg |-> 0]
        /\ UNCHANGED <<trust_file, now, procVars>>

\* The clock advances.
Tick ==
    /\ now < MaxTime
    /\ now' = now + 1
    /\ last' = [NoLast EXCEPT !.op = "tick"]
    /\ UNCHANGED <<trust_file, cache, procVars>>

\* no invocation is inside a call
Quiet == \A p \in Procs : pc[p] = "idle"

TrustOps ==
    \/ \E u \in Locators : AddTrust(u)
    \/ \E u \in Locators : RemoveTrust(u)

CacheOps ==
    \/ \E u \in CacheLocators, src \in SourceFiles(now),
          outcome \in {"ok", "io_error"} :
          /\ (~src.exists \/ is_builder_cached(cache, u) => outcome = "ok")
          /\ StoreApi(u, src, outcome)
    \/ \E m \in 0..MaxAge : PruneCache(m)
    \/ \E u \in CacheLocators : PruneBuilder(u)
    \/ Tick

\* One invocation at a time: run_builder calls, with trust commands and
\* --cache-prune-builder between them.
Next ==
    /\ \/ Step(1)
       \/ (Quiet /\ TrustOps)
       \/ (Quiet /\ \E u \in Locators : PruneBuilder(u))
    /\ UNCHANGED <<fetcher, probe, callVars>>

Spec == Init /\ [][Next]_vars

\* The cache API alone, as the clock advances.
\* another invocation prunes an entry between ensure_builder_available and
\* the spawn of this one
PruneBeforeSpawn(u) ==
    /\ pc[1] = "spawn"
    /\ PruneBuilder(u)

NextRun ==
    (\/ Step(1)
     \/ (Quiet /\ TrustOps)
     \/ \E u \in Locators : PruneBeforeSpawn(u))
    /\ UNCHANGED <<fetcher, probe, callVars>>

SpecRun == Init /\ [][NextRun]_vars

\* run_builder in a project whose builder_binary is a local directory, and
\* the trust commands on local locators
NextLocal ==
    (\/ \E u \in LocalLocators : Call(1, u)
     \/ Run(1)
     \/ (Quiet /\ \E u \in LocalLocators : AddTrust(u) \/ RemoveTrust(u)))
    /\ UNCHANGED <<fetcher, probe, callVars>>

SpecLocal == Init /\ [][NextLocal]_vars

NextCache == CacheOps /\ UNCHANGED <<fetcher, probe, callVars>>

SpecCache == Init /\ [][NextCache]_vars

\* The trust commands alone.
NextTrust ==
    /\ \/ \E u \in TrustLocators : AddTrust(u)
       \/ \E u \in TrustLocators : RemoveTrust(u)
    /\ UNCHANGED <<fetcher, probe, callVars>>

SpecTrust == Init /\ [][NextTrust]_vars

(***************************************************************************)
(* TrustManager._extract_domain on locators of every shape                 *)
(***************************************************************************)
\* The parts a locator is written from: scheme ("" | "https:" | "HTTP:"),
\* the "//" that starts an authority, user information, host, port, and what
\* follows the authority.
UrlSchemes == {<<>>, <<104,116,116,112,115,58>>, <<72,84,84,80,58>>}

UrlUserinfos == {<<>>, <<117,64>>}

\* "h.io", "H.io", no host, and "[h": an IPv6 literal that is not closed
UrlHosts == {<<104,46,105,111>>, <<72,46,105,111>>, <<>>, <<91,104>>}

UrlPorts == {<<>>, <<58,56,48>>}

\* nothing, a path, a query, a fragment
UrlTails == {<<>>, <<47,112>>, <<63,113>>, <<35,102>>}

DomainCases ==
    [scheme : UrlSchemes, authority : BOOLEAN, userinfo : UrlUserinfos,
     host : UrlHosts, port : UrlPorts, tail : UrlTails]

\* the locator written from the parts k
UrlOf(k) ==
    k.scheme \o (IF k.authority THEN <<47, 47>> ELSE <<>>) \o k.userinfo
        \o k.host \o k.port \o k.tail

\* self._extract_domain(url) for the locator written from k
ExtractDomain(k) ==
    /\ probe' = [url    |-> UrlOf(k),
                 called |-> TRUE,
                 raised |-> NetlocRaises(UrlOf(k)),
                 domain |-> IF NetlocRaises(UrlOf(k)) THEN <<>>
                            ELSE extract_domain(UrlOf(k))]
    /\ UNCHANGED <<trust_file, cache, now, procVars, last, fetcher, callVars>>

NextDomain == \E k \in DomainCases : ExtractDomain(k)

SpecDomain == Init /\ [][NextDomain]_vars

(***************************************************************************)
(* SourceFetcher.download_or_clone_source, call by call                    *)
(***************************************************************************)
\* How the locators of the fetch start: "file://", "file:///t/", "/t/", "./",
\* "../", "C:/", "https://h/", "git@h:".  kind is the form the text is written
\* in, rest what follows "file://" in it.
UrlPrefixes ==
    {[text |-> <<102,105,108,101,58,47,47>>, kind |-> "file_url", rest |-> <<>>],
     [text |-> <<102,105,108,101,58,47,47,47,116,47>>, kind |-> "file_url", rest |-> <<47,116,47>>],
     [text |-> <<47,116,47>>, kind |-> "path", rest |-> <<>>],
     [text |-> <<46,47>>, kind |-> "path", rest |-> <<>>],
     [text |-> <<46,46,47>>, kind |-> "path", rest |-> <<>>],
     [text |-> <<67,58,47>>, kind |-> "path", rest |-> <<>>],
     [text |-> <<104,116,116,112,115,58,47,47,104,47>>, kind |-> "remote", rest |-> <<>>],
     [text |-> <<103,105,116,64,104,58>>, kind |-> "remote", rest |-> <<>>]}

\* How they end: "r", "r.git", "r.zip", "r.tgz", "r.tar.gz", "r.git#v1",
\* "r.git#a#b", "r.git#", "r#v1.git".  base is what precedes the first '#',
\* ref what follows it, git whether base is written with the ending ".git".
UrlBodies ==
    {[text |-> <<114>>, base |-> <<114>>, ref |-> <<>>, git |-> FALSE],
     [text |-> <<114,46,103,105,116>>, base |-> <<114,46,103,105,116>>, ref |-> <<>>, git |-> TRUE],
     [text |-> <<114,46,122,105,112>>, base |-> <<114,46,122,105,112>>, ref |-> <<>>, git |-> FALSE],
     [text |-> <<114,46,116,103,122>>, base |-> <<114,46,116,103,122>>, ref |-> <<>>, git |-> FALSE],
     [text |-> <<114,46,116,97,114,46,103,122>>, base |-> <<114,46,116,97,114,46,103,122>>, ref |-> <<>>, git |-> FALSE],
     [text |-> <<114,46,103,105,116,35,118,49>>, base |-> <<114,46,103,105,116>>, ref |-> <<118,49>>, git |-> TRUE],
     [text |-> <<114,46,103,105,116,35,97,35,98>>, base |-> <<114,46,103,105,116>>, ref |-> <<97,35,98>>, git |-> TRUE],
     [text |-> <<114,46,103,105,116,35>>, base |-> <<114,46,103,105,116>>, ref |-> <<>>, git |-> TRUE],
     [text |-> <<114,35,118,49,46,103,105,116>>, base |-> <<114>>, ref |-> <<118,49,46,103,105,116>>, git |-> FALSE]}

\* the locators download_or_clone_source is called with, and their parts
FetchCases ==
    {[url |-> p.text \o b.text, prefix |-> p, body |-> b] :
        p \in UrlPrefixes, b \in UrlBodies}

\* the exit codes of git
GitExitCodes == {0, 1}

\* for branch in ['main', 'master']
default_branches_master_first == <<<<109,97,115,116,101,114>>, <<109,97,105,110>>>>

default_branches == <<<<109,97,105,110>>, <<109,97,115,116,101,114>>>>

\* download_or_clone_source(url, target_dir): the one handler it calls
FetchCall(u, d) ==
    /\ fetcher.pc = "idle"
    /\ fetcher' =
          [NoFetch EXCEPT
           !.before = d,
           !.dest = d,
           !.pc = FetchStrategy(u),
           !.url = u,
           !.calls = << IF FetchStrategy(u) = "local"
                        THEN [fn  |-> "_handle_file_url",
                              arg |-> IF StartsWith(u, <<102, 105, 108, 101, 58, 47, 47>>)
                                      THEN DropFirst(u, 7) ELSE u]
                        ELSE IF FetchStrategy(u) = "git"
                        THEN [fn |-> "clone_and_checkout_git", arg |-> u]
                        ELSE [fn |-> "download_and_extract_archive", arg |-> u] >>]
    /\ UNCHANGED <<trust_file, cache, now, procVars, last, probe, callVars>>

\* _handle_file_url(file_path, target_dir) when file_path names p and
\* target_dir holds dest: what it raises and what target_dir holds afterwards.
\* outcome "error" is an archive that cannot be opened or a directory that
\* cannot be listed: the handler raises before it writes.
handle_file_url(file_path, p, dest, outcome) ==
    IF p.kind = "missing"
    THEN [err |-> "not_found", msg |-> <<>>, dest |-> dest]
    ELSE IF (p.kind = "file" /\ SupportedArchive(file_path)) \/ p.kind = "dir"
    THEN IF outcome = "ok"
         THEN [err |-> "none", msg |-> <<>>, dest |-> copytree(p.tree, dest)]
         ELSE [err |-> "file_error", msg |-> <<>>, dest |-> dest]
    ELSE [err |-> "unsupported_type", msg |-> SUPPORTED_ARCHIVE_FORMATS,
          dest |-> dest]

HandleFileUrl(p, outcome) ==
    /\ fetcher.pc = "local"
    /\ LET r == handle_file_url(fetcher.calls[1].arg, p, fetcher.dest, outcome)
       IN  fetcher' = [fetcher EXCEPT
                          !.source = p,
                          !.pc = IF r.err = "none" THEN "done" ELSE "failed",
                          !.err = r.err,
                          !.msg = r.msg,
                          !.dest = r.dest]
    /\ UNCHANGED <<trust_file, cache, now, procVars, last, probe, callVars>>

\* _download_and_extract_archive unlinking the temporary file after the
\* extraction instead of in a finally clause
download_archive_unlink_on_success(tree, dest, outcome) ==
    [err     |-> IF outcome = "ok" THEN "none" ELSE outcome,
     events  |-> <<"mktemp", "urlretrieve">>
                     \o (IF outcome = "download_error" THEN <<>> ELSE <<"extract">>)
                     \o (IF outcome = "ok" THEN <<"unlink">> ELSE <<>>),
     tmpfile |-> outcome /= "ok",
     dest    |-> IF outcome = "ok" THEN copytree(tree, dest) ELSE dest]

\* _download_and_extract_archive(url, extract_dir): the temporary file is
\* made, urlretrieve fills it, _extract_archive unpacks it, and the finally
\* clause unlinks it.  outcome tells which step raises, if any.
download_archive(tree, dest, outcome) ==
    [err     |-> IF outcome = "ok" THEN "none" ELSE outcome,
     events  |-> <<"mktemp", "urlretrieve">>
                     \o (IF outcome = "download_error" THEN <<>> ELSE <<"extract">>)
                     \o <<"unlink">>,
     tmpfile |-> FALSE,
     dest    |-> IF outcome = "ok" THEN copytree(tree, dest) ELSE dest]

\* the ways _download_and_extract_archive ends
DownloadOutcomes == {"ok", "download_error", "extract_error"}

\* download_and_extract_archive(url, extract_dir): the extension test, then
\* _download_and_extract_archive
download_and_extract_archive(url, tree, dest, outcome) ==
    IF SupportedArchive(url)
    THEN LET r == download_archive(tree, dest, outcome)
         IN  [err |-> r.err, msg |-> <<>>, events |-> r.events,
              tmpfile |-> r.tmpfile, dest |-> r.dest]
    ELSE [err |-> "unsupported_archive", msg |-> SUPPORTED_ARCHIVE_FORMATS,
          events |-> <<>>, tmpfile |-> FALSE, dest |-> dest]

DownloadArchive(tree, outcome) ==
    /\ fetcher.pc = "archive"
    /\ LET r == download_and_extract_archive(fetcher.calls[1].arg, tree,
                                              fetcher.dest, outcome)
       IN  fetcher' = [fetcher EXCEPT
                          !.source = [kind |-> "archive", tree |-> tree],
                          !.pc = IF r.err = "none" THEN "done" ELSE "failed",
                          !.err = r.err,
                          !.msg = r.msg,
                          !.events = r.events,
                          !.tmpfile = r.tmpfile,
                          !.dest = r.dest]
    /\ UNCHANGED <<trust_file, cache, now, procVars, last, probe, callVars>>

\* os.chdir(original_cwd) after the checkouts instead of in a finally clause
RestoreCwd_on_success(raised) == IF raised THEN "clone_dir" ELSE "original"

\* clone_and_checkout_git: the finally clause, os.chdir(original_cwd), run
\* when the checkout part ends, having raised or not
RestoreCwd(raised) == "original"

\* `if reference:` testing for None alone
reference_given_not_none(parsed) == parsed[2]

\* clone_and_checkout_git: `if reference:` on what _parse_git_url returned,
\* false for None and for the empty string
reference_given(parsed) == parsed[2] /\ parsed[3] /= <<>>

\* clone_and_checkout_git: git clone ... git_url clone_dir, exiting rc
GitClone(rc) ==
    /\ fetcher.pc = "git"
    /\ fetcher' = [fetcher EXCEPT
                      !.git = <<[cmd |-> "clone",
                                 arg |-> parse_git_url(fetcher.calls[1].arg)[1],
                                 rc  |-> rc]>>,
                      !.pc = IF rc /= 0 THEN "failed" ELSE "checkout",
                      !.cwd = IF rc /= 0 THEN @ ELSE "clone_dir",
                      !.err = IF rc /= 0 THEN "clone_failed" ELSE "none"]
    /\ UNCHANGED <<trust_file, cache, now, procVars, last, probe, callVars>>

\* clone_and_checkout_git: the next git checkout, exiting rc.  With a
\* reference (not None, not empty) it is the only one; without, the branches
\* of default_branches are tried in turn until one succeeds.
GitCheckout(rc) ==
    /\ fetcher.pc = "checkout"
    /\ LET reference == parse_git_url(fetcher.calls[1].arg)[3]
           n == Len(fetcher.git)
       IN  IF reference_given(parse_git_url(fetcher.calls[1].arg))
           THEN fetcher' = [fetcher EXCEPT
                   !.git = Append(@, [cmd |-> "checkout", arg |-> reference,
                                      rc |-> rc]),
                   !.pc = IF rc /= 0 THEN "failed" ELSE "done",
                   !.cwd = RestoreCwd(rc /= 0),
                   !.err = IF rc /= 0 THEN "checkout_failed" ELSE "none"]
           ELSE fetcher' = [fetcher EXCEPT
                   !.git = Append(@, [cmd |-> "checkout",
                                      arg |-> default_branches[n], rc |-> rc]),
                   !.pc = IF rc = 0 THEN "done"
                          ELSE IF n = Len(default_branches) THEN "failed"
                          ELSE "checkout",
                   !.cwd = IF rc /= 0 /\ n < Len(default_branches) THEN @
                           ELSE RestoreCwd(rc /= 0),
                   !.err = IF rc /= 0 /\ n = Len(default_branches)
                           THEN "no_default_branch" ELSE "none"]
    /\ UNCHANGED <<trust_file, cache, now, procVars, last, probe, callVars>>

\* download_or_clone_source returns or raises
FetchReturn ==
    /\ fetcher.pc \in {"done", "failed"}
    /\ fetcher' = NoFetch
    /\ UNCHANGED <<trust_file, cache, now, procVars, last, probe, callVars>>

NextFetch ==
    \/ \E k \in FetchCases, d \in DestTrees : FetchCall(k.url, d)
    \/ \E p \in LocalPaths, outcome \in {"ok", "error"} : HandleFileUrl(p, outcome)
    \/ \E tree \in SourceContents, outcome \in DownloadOutcomes :
          DownloadArchive(tree, outcome)
    \/ \E rc \in GitExitCodes : GitClone(rc)
    \/ \E rc \in GitExitCodes : GitCheckout(rc)
    \/ FetchReturn

SpecFetch == Init /\ [][NextFetch]_vars

(***************************************************************************)
(* build_rust_project on a source tree                                     *)
(***************************************************************************)
\* the directories of source_dir in the order os.walk visits them, top
\* down: 1 is source_dir itself, 2 a directory in it, 3 a directory in 2
WalkOrder == <<1, 2, 3>>

\* the source trees: the set of directories holding a Cargo.toml
ManifestSets == SUBSET {1, 2, 3}

\* per directory, what <directory>/target/release/builder holds when cargo
\* has ended (0: no such file)
ExeAfter == [{1, 2, 3} -> {0} \cup Builds]

\* BuilderBuilder.find_rust_project_root: the first directory of the walk
\* whose files include Cargo.toml, 0 for None
find_rust_project_root(manifests) ==
    IF \E i \in 1..Len(WalkOrder) : WalkOrder[i] \in manifests
    THEN WalkOrder[CHOOSE i \in 1..Len(WalkOrder) :
                      /\ WalkOrder[i] \in manifests
                      /\ \A j \in 1..(i - 1) : WalkOrder[j] \notin manifests]
    ELSE 0

\* cargo run from source_dir instead of the project root
cargo_cwd_source_dir(rust_project_root) == 1

\* subprocess.run(['cargo', 'build', '--release'], cwd=rust_project_root)
cargo_cwd(rust_project_root) == rust_project_root

\* build_rust_project(source_dir): the root is looked for, cargo runs there
\* and ends as rc, and target/release/builder under the root is looked for
BuildProject(manifests, rc, exes) ==
    /\ build_call.pc = "idle"
    /\ LET root == find_rust_project_root(manifests)
           cwd == cargo_cwd(root)
           r == build_rust_project(
                    [exists |-> TRUE, manifest |-> root /= 0, exe |-> 0],
                    rc, IF root = 0 THEN 0 ELSE exes[root])
       IN  build_call' =
              [pc        |-> "done",
               manifests |-> manifests,
               exes      |-> exes,
               runs      |-> IF r.cargo
                             THEN <<[cmd |-> <<"cargo", "build", "--release">>,
                                     cwd |-> cwd, rc |-> rc]>>
                             ELSE <<>>,
               err       |-> r.err,
               ret       |-> IF r.ok THEN [dir |-> root, exe |-> r.exe]
                             ELSE [dir |-> 0, exe |-> 0]]
    /\ UNCHANGED <<trust_file, cache, now, procVars, last, fetcher, probe,
                   codec, main_call, prune_cmd>>

\* build_rust_project has returned or raised
BuildReturn ==
    /\ build_call.pc = "done"
    /\ build_call' = NoBuildCall
    /\ UNCHANGED <<trust_file, cache, now, procVars, last, fetcher, probe,
                   codec, main_call, prune_cmd>>

NextBuild ==
    \/ \E manifests \in ManifestSets, rc \in CargoOutcomes, exes \in ExeAfter :
          BuildProject(manifests, rc, exes)
    \/ BuildReturn

SpecBuild == Init /\ [][NextBuild]_vars

(***************************************************************************)
(* _caret_encode_url and the cache paths, as functions of their input       *)
(***************************************************************************)
\* the longest text given to _caret_encode_url alone
MaxEncLen == 2

\* the characters of those texts: a letter, a capital, a digit, the seven
\* safe punctuation marks, the six characters the documentation lists, a
\* line feed, Latin-1 letters and signs, and characters on both sides of
\* each boundary of the width classes, alphanumeric or not
EncodeChars ==
    {97, 90, 55, 45, 95, 96, 123, 125, 46, 126, 58, 47, 32, 64, 35, 94, 10,
     233, 215, 255, 256, 768, 4095, 4096, 8364, 20013, 65535, 65536, 128512,
     1048575, 1048576, 1114111}

\* the texts over chars of length up to n
Texts(chars, n) == UNION {[1..k -> chars] : k \in 0..n}

\* the longest locator of a pair
MaxPairLen == 2

\* the characters of the locators of a pair: '.', 'b', ' ', '2', '^', U+2022
PairChars == {46, 98, 32, 50, 94, 8226}

\* _caret_encode_url(s), and the cache paths of s
EncodeOne(s) ==
    /\ codec.pc = "idle"
    /\ codec' = [NoCodec EXCEPT
                    !.pc = "done",
                    !.a = s,
                    !.ea = caret_encode_url(s),
                    !.da = get_builder_cache_dir(s),
                    !.xa = get_builder_executable_path_for_url(s)]
    /\ UNCHANGED <<trust_file, cache, now, procVars, last, fetcher, probe,
                   build_call, main_call, prune_cmd>>

\* _caret_encode_url and the cache paths of two locators s and t
EncodePair(s, t) ==
    /\ codec.pc = "idle"
    /\ codec' = [pc |-> "done",
                 a  |-> s,
                 b  |-> t,
                 ea |-> caret_encode_url(s),
                 eb |-> caret_encode_url(t),
                 da |-> get_builder_cache_dir(s),
                 db |-> get_builder_cache_dir(t),
                 xa |-> get_builder_executable_path_for_url(s),
                 xb |-> get_builder_executable_path_for_url(t)]
    /\ UNCHANGED <<trust_file, cache, now, procVars, last, fetcher, probe,
                   build_call, main_call, prune_cmd>>

\* the call has returned
CodecReturn ==
    /\ codec.pc = "done"
    /\ codec' = NoCodec
    /\ UNCHANGED <<trust_file, cache, now, procVars, last, fetcher, probe,
                   build_call, main_call, prune_cmd>>

NextEncode ==
    \/ \E s \in Texts(EncodeChars, MaxEncLen) : EncodeOne(s)
    \/ CodecReturn

SpecEncode == Init /\ [][NextEncode]_vars

NextEncodePair ==
    \/ \E s, t \in Texts(PairChars, MaxPairLen) : EncodePair(s, t)
    \/ CodecReturn

SpecEncodePair == Init /\ [][NextEncodePair]_vars

(***************************************************************************)
(* main                                                                    *)
(***************************************************************************)
\* the keys of command_handlers in CommandProcessor.dispatch_command
MaintenanceCommands ==
    {"--trust-yes", "--trust-no", "--trust-list", "--cache-prune-older-than",
     "--cache-prune-builder", "--cache-help"}

\* sys.argv[1]: absent ("none"), a maintenance command, or anything else,
\* which is forwarded to the builder
Commands == {"none", "forward"} \cup MaintenanceCommands

\* builder.yaml as ProjectConfiguration._load_config finds it: readable with
\* a builder_binary, absent (FileNotFoundError), or without a usable
\* builder_binary (ValueError)
ConfigStates == {"ok", "missing", "invalid"}

\* how ensure_builder_available would end: "none" when it returns, else the
\* exception it raises
EnsureOutcomes ==
    {"none", "trust_error", "acquire_error", "no_manifest", "cargo_failed",
     "exe_missing", "copy_error"}

\* CommandProcessor.dispatch_command(command, args): the code the handler
\* returns.  Each handler that takes a parameter returns 1 without it, and
\* each catches the exceptions of its operation and returns 1.
dispatch_command(command, has_param, handler_raises) ==
    IF command = "--cache-help" THEN 0
    ELSE IF command \in {"--trust-yes", "--trust-no", "--cache-prune-older-than"}
            /\ ~has_param
    THEN 1
    ELSE IF handler_raises THEN 1
    ELSE 0

\* manager.run_builder(args) inside the try block of main: the exception of
\* ensure_builder_available is caught by main, which returns 1
run_builder_in_main(ensure, spawn) ==
    IF ensure /= "none" THEN 1
    ELSE run_builder(TRUE, TRUE, spawn).exit_code

\* main(): [ended, code], ended being "returned" or "raised"
main(command, has_param, config, ensure, spawn, handler_raises) ==
    IF command = "none"
    THEN \* BuilderManager() and run_builder([]) are inside try
         [ended |-> "returned",
          code  |-> IF config /= "ok" THEN 1
                    ELSE run_builder_in_main(ensure, spawn)]
    ELSE IF config /= "ok"
    THEN \* manager = BuilderManager() is outside every try
         [ended |-> "raised", code |-> -1]
    ELSE IF command \in MaintenanceCommands
    THEN [ended |-> "returned",
          code  |-> dispatch_command(command, has_param, handler_raises)]
    ELSE [ended |-> "returned", code |-> run_builder_in_main(ensure, spawn)]

\* the script is run
MainCall(command, has_param, config, ensure, spawn, handler_raises) ==
    /\ main_call.pc = "idle"
    /\ command = "none" => ~has_param
    /\ LET r == main(command, has_param, config, ensure, spawn, handler_raises)
       IN  main_call' =
              [pc |-> "done", command |-> command, has_param |-> has_param,
               config |-> config, ensure |-> ensure, spawn |-> spawn,
               handler_raises |-> handler_raises,
               ended |-> r.ended, code |-> r.code]
    /\ UNCHANGED <<trust_file, cache, now, procVars, last, fetcher, probe,
                   build_call, codec, prune_cmd>>

\* the process has exited
MainExit ==
    /\ main_call.pc = "done"
    /\ main_call' = NoMainCall
    /\ UNCHANGED <<trust_file, cache, now, procVars, last, fetcher, probe,
                   build_call, codec, prune_cmd>>

NextMain ==
    \/ \E command \in Commands, has_param \in BOOLEAN, config \in ConfigStates,
          ensure \in EnsureOutcomes, spawn \in SpawnOutcomes,
          handler_raises \in BOOLEAN :
          MainCall(command, has_param, config, ensure, spawn, handler_raises)
    \/ MainExit

SpecMain == Init /\ [][NextMain]_vars

(***************************************************************************)
(* --cache-prune-older-than <time>                                         *)
(***************************************************************************)
\* the longest time specification
MaxSpecLen == 3

\* the characters of the time specifications: '0', '2', the units 's', 'M',
\* 'h', 'd', and 'x', '-', '.', ' ' and the line feed
TimeSpecChars == {48, 50, 115, 77, 104, 100, 120, 45, 46, 32, 10}

\* \d on the characters of the model: the ASCII digits.  (re also takes the
\* decimal digits of other scripts for \d; TimeSpecChars has none.)
IsDigit(c) == c \in 48..57

\* [smhd]
TimeUnits == {115, 109, 104, 100}

\* int(match.group(1))
DecimalValue(digits) ==
    LET value[i \in 0..Len(digits)] ==
            IF i = 0 THEN 0 ELSE 10 * value[i - 1] + (digits[i] - 48)
    IN  value[Len(digits)]

\* the text is digits, at least one, and then one unit: (\d+)([smhd])
DigitsAndUnit(t) ==
    /\ Len(t) >= 2
    /\ \A i \in 1..(Len(t) - 1) : IsDigit(t[i])
    /\ t[Len(t)] \in TimeUnits

\* re.match(r'^(\d+)([smhd])$', t): '$' matches at the end of the text and
\* also just before a line feed that ends the text.  The result is
\* [matched, digits, unit].
re_match_time_spec(t) ==
    LET body == IF Len(t) >= 1 /\ t[Len(t)] = 10
                THEN SubSeq(t, 1, Len(t) - 1) ELSE t
    IN  IF DigitsAndUnit(body)
        THEN [matched |-> TRUE, digits |-> SubSeq(body, 1, Len(body) - 1),
              unit |-> body[Len(body)]]
        ELSE [matched |-> FALSE, digits |-> <<>>, unit |-> 0]

\* timedelta(seconds=1), (minutes=1), (hours=1), (days=1), in seconds
UnitSeconds(unit) ==
    CASE unit = 115 -> 1
      [] unit = 109 -> 60
      [] unit = 104 -> 3600
      [] unit = 100 -> 86400

\* CommandProcessor._parse_time_spec: [ok, seconds]; ok is FALSE when it
\* raises ValueError
parse_time_spec(time_spec) ==
    IF time_spec = <<>> THEN [ok |-> FALSE, seconds |-> 0]
    ELSE LET m == re_match_time_spec(Lower(time_spec))
         IN  IF ~m.matched THEN [ok |-> FALSE, seconds |-> 0]
             ELSE IF DecimalValue(m.digits) <= 0
             THEN [ok |-> FALSE, seconds |-> 0]
             ELSE [ok |-> TRUE,
                   seconds |-> DecimalValue(m.digits) * UnitSeconds(m.unit)]

\* handle_cache_prune_older_command with args[2] = time_spec: the text is
\* parsed, the cache is pruned with the age it gives and 0 is returned; on
\* ValueError nothing is pruned and 1 is returned
PruneOlderThan(time_spec) ==
    /\ prune_cmd.pc = "idle"
    /\ LET r == parse_time_spec(time_spec)
       IN  /\ prune_cmd' = [NoPruneCmd EXCEPT
                               !.pc = "done", !.text = time_spec, !.ok = r.ok,
                               !.seconds = r.seconds, !.pruned = r.ok,
                               !.code = IF r.ok THEN 0 ELSE 1]
           /\ cache' = IF r.ok THEN prune_cache(cache, r.seconds, now).cache
                       ELSE cache
    /\ UNCHANGED <<trust_file, now, procVars, last, fetcher, probe,
                   build_call, codec, main_call>>

\* the command has ended
PruneCmdReturn ==
    /\ prune_cmd.pc = "done"
    /\ prune_cmd' = NoPruneCmd
    /\ UNCHANGED <<trust_file, cache, now, procVars, last, fetcher, probe,
                   build_call, codec, main_call>>

\* the entry directories of the locators the prune loop is run on, and the
\* orders iterdir() can give them in
PruneDirs == {get_builder_cache_dir(u) : u \in Locators}

PruneOrders ==
    {o \in [1..Cardinality(PruneDirs) -> PruneDirs] :
        \A i, j \in DOMAIN o : i /= j => o[i] /= o[j]}

\* nothing goes wrong, or something goes wrong with one entry
OneFault ==
    {f \in [PruneDirs -> PruneFaults] :
        \A d, e \in PruneDirs : (f[d] /= "none" /\ f[e] /= "none") => d = e}

\* cache_manager.prune_cache(max_age) with the entries listed in order and
\* fault going wrong
PruneWithFaults(max_age, order, fault) ==
    /\ prune_cmd.pc = "idle"
    /\ \A d \in PruneDirs : ~cache[d].dir => fault[d] = "none"
    /\ LET r == prune_cache_loop(cache, max_age, now, order, fault)
       IN  /\ cache' = r.cache
           /\ prune_cmd' = [NoPruneCmd EXCEPT
                               !.pc = "pruned", !.pruned = TRUE,
                               !.max_age = max_age, !.order = order,
                               !.fault = fault, !.raised = r.raised,
                               !.ret = IF r.raised THEN -1 ELSE r.ret,
                               !.code = IF r.raised THEN 1 ELSE 0]
    /\ UNCHANGED <<trust_file, now, procVars, last, fetcher, probe,
                   build_call, codec, main_call>>

\* prune_cache has returned or raised
PruneWithFaultsReturn ==
    /\ prune_cmd.pc = "pruned"
    /\ prune_cmd' = NoPruneCmd
    /\ UNCHANGED <<trust_file, cache, now, procVars, last, fetcher, probe,
                   build_call, codec, main_call>>

\* a build is cached for u, last used at time a
StoreForPrune(u, a) ==
    /\ prune_cmd.pc = "idle"
    /\ StoreApi(u, [exists |-> TRUE, content |-> 1, exec |-> TRUE,
                    atime |-> a, mtime |-> a], "ok")
    /\ UNCHANGED <<fetcher, probe, callVars>>

NextPrune ==
    \/ \E u \in Locators, a \in 1..now : StoreForPrune(u, a)
    \/ (prune_cmd.pc = "idle" /\ Tick /\ UNCHANGED <<fetcher, probe, callVars>>)
    \/ \E max_age \in 0..MaxAge, order \in PruneOrders, fault \in OneFault :
          PruneWithFaults(max_age, order, fault)
    \/ PruneWithFaultsReturn

SpecPrune == Init /\ [][NextPrune]_vars

NextTimeSpec ==
    \/ \E time_spec \in Texts(TimeSpecChars, MaxSpecLen) : PruneOlderThan(time_spec)
    \/ PruneCmdReturn

SpecTimeSpec == Init /\ [][NextTimeSpec]_vars

(***************************************************************************)
(* Two invocations of the tool at the same time                            *)
(***************************************************************************)
\* the locator both invocations are given
RaceUrl == BuiltinUrl

\* shutil.copy2 opening its target for writing (copyfile: open(dst, 'wb')):
\* the file is created, or an existing file is emptied and keeps its mode
Copy2Open(c, url, t) ==
    LET d == get_builder_cache_dir(url)
        e == c[d]
    IN  [c EXCEPT ![d] =
            [dir |-> TRUE, kind |-> "file", content |-> 0,
             exec |-> e.kind = "file" /\ e.exec,
             atime |-> IF e.kind = "file" THEN e.atime ELSE t,
             mtime |-> t, ctime |-> t]]

\* cache_builder_executable: copy2 has opened target_path and not yet
\* written it
StoreCopyOpen(p) ==
    /\ pc[p] = "store_copy"
    /\ env[p].copy = "none"
    /\ cache' = Copy2Open(cache, builder_url[p], now)
    /\ env' = [env EXCEPT ![p].copy = "open"]
    /\ UNCHANGED <<trust_file, now, pc, builder_url, scratch, built, result,
                   exit_code, ops, pre, last>>

\* cache_builder_executable: copy2 writes the file it opened and copies the
\* metadata, or fails part way
StoreCopyWrite(p) ==
    /\ env[p].copy = "open"
    /\ StoreCopy(p)

\* the source both invocations fetch: a Cargo project, nothing built
RaceTree == [exists |-> TRUE, manifest |-> TRUE, exe |-> 0]

\* the steps of one invocation of run_builder, the copy in two steps; the
\* second invocation starts after the first, the fetch and the build
\* succeed, and the build of invocation p gives the executable p
RaceStep(p) ==
    \/ (Call(p, RaceUrl) /\ \A q \in Procs : q < p => pc[q] /= "idle")
    \/ Validate(p)
    \/ CheckCache(p)
    \/ (Acquire(p) /\ env'[p].fetch = "ok" /\ env'[p].tree = RaceTree)
    \/ (Build(p) /\ env'[p].cargo = "exit0" /\ env'[p].exe = p)
    \/ StoreCheck(p)
    \/ StoreCopyOpen(p)
    \/ StoreCopyWrite(p)
    \/ StoreChmod(p)
    \/ Spawn(p)

\* both invocations have returned
Settled == \A p \in Procs : pc[p] = "returned"

\* no invocation is between the mkdir and the end of cache_builder_executable
NoStoreUnderWay == \A p \in Procs : pc[p] \notin {"store_copy", "store_chmod"}

\* the executable b, built at time t
BuiltFile(b, t) ==
    [exists |-> TRUE, content |-> b, exec |-> TRUE, atime |-> t, mtime |-> t]

\* Two invocations run once each, at any pace; --cache-prune-builder runs
\* while no store is under way; the trust commands, a direct store,
\* --cache-prune-older-than and the clock after the two.
NextRace ==
    /\ \/ \E p \in Procs : RaceStep(p)
       \/ (Settled /\ AddTrust(ZipUrl))
       \/ (Settled /\ RemoveTrust(ZipUrl))
       \/ (NoStoreUnderWay /\ PruneBuilder(RaceUrl))
       \/ (Settled /\ \E b \in Builds : StoreApi(RaceUrl, BuiltFile(b, now), "ok"))
       \/ (Settled /\ \E m \in 0..MaxAge : PruneCache(m))
       \/ (Settled /\ Tick)
    /\ UNCHANGED <<fetcher, probe, callVars>>

SpecRace == Init /\ [][NextRace]_vars

(***************************************************************************)
(* The trust commands given any text                                       *)
(***************************************************************************)
\* the most lines the trusted_urls file grows to
MaxTrustLines == 5

\* " https://github.com/kstenerud/builder-test.git": the built-in locator
\* after a blank
PaddedBuiltinUrl == <<32>> \o BuiltinUrl

\* " https://example.com/test.zip"
PaddedZipUrl == <<32>> \o ZipUrl

\* "#x"
CommentUrl == <<35, 120>>

\* " "
BlankUrl == <<32>>

\* the texts --trust-yes and --trust-no are given
RawLocators ==
    {BuiltinUrl, ZipUrl, PaddedBuiltinUrl, PaddedZipUrl, CommentUrl, BlankUrl,
     <<>>}

NextTrustRaw ==
    /\ \/ \E u \in RawLocators :
             Len(trust_file.lines) < MaxTrustLines /\ AddTrust(u)
       \/ \E u \in RawLocators : RemoveTrust(u)
    /\ UNCHANGED <<fetcher, probe, callVars>>

SpecTrustRaw == Init /\ [][NextTrustRaw]_vars

(***************************************************************************)
(* Two --trust-yes commands at the same time                               *)
(***************************************************************************)
\* add_trusted_url(u) of invocation p: all_trusted_urls() has read the file;
\* pre[p].trust_file is the file as it was read
AddRead(p, u) ==
    /\ pc[p] = "idle"
    /\ pc' = [pc EXCEPT ![p] = "add_write"]
    /\ builder_url' = [builder_url EXCEPT ![p] = u]
    /\ pre' = [pre EXCEPT ![p] = [cache |-> EmptyCache, trust_file |-> trust_file]]
    /\ UNCHANGED <<trust_file, cache, now, scratch, built, result, exit_code,
                   ops, env, last>>

\* add_trusted_url of invocation p goes on from what it read: it returns
\* False, or writes the whole file with its locator appended and returns True
AddWrite(p) ==
    /\ pc[p] = "add_write"
    /\ LET r == add_trusted_url(pre[p].trust_file, builder_url[p])
       IN  /\ trust_file' = IF r.ret THEN r.file ELSE trust_file
           /\ result' = [result EXCEPT ![p] = IF r.ret THEN "added" ELSE "not_added"]
    /\ pc' = [pc EXCEPT ![p] = "returned"]
    /\ UNCHANGED <<cache, now, builder_url, scratch, built, exit_code, ops, env,
                   pre, last>>

\* Two invocations run --trust-yes, again and again, at any pace, and
\* --trust-no runs between the steps.
NextAddRace ==
    /\ \/ \E p \in Procs, u \in CacheLocators : AddRead(p, u)
       \/ \E p \in Procs : AddWrite(p)
       \/ \E p \in Procs : Finish(p)
       \/ \E u \in CacheLocators : RemoveTrust(u)
    /\ UNCHANGED <<fetcher, probe, callVars>>

SpecAddRace == Init /\ [][NextAddRace]_vars

(***************************************************************************)
(* The trust commands on locators without a domain                         *)
(***************************************************************************)
\* "git@h:r.git", an scp-style Git address
ScpUrl == <<103, 105, 116, 64, 104, 58, 114, 46, 103, 105, 116>>

\* locators whose urlparse(url).netloc is empty: a local path, a file URL
\* without a host, an scp-style address, "#x", " " and ""
EmptyDomainLocators ==
    {LocalDirUrl, FileDirUrl, ScpUrl, CommentUrl, BlankUrl, <<>>}

NextEmptyDomain ==
    /\ \/ \E u \in EmptyDomainLocators \cup {ZipUrl} :
             Len(trust_file.lines) < MaxTrustLines /\ AddTrust(u)
       \/ \E u \in EmptyDomainLocators \cup {ZipUrl} : RemoveTrust(u)
    /\ UNCHANGED <<fetcher, probe, callVars>>

SpecEmptyDomain == Init /\ [][NextEmptyDomain]_vars

(***************************************************************************)
(* Properties                                                              *)
(***************************************************************************)
\* the side effects of the call of p that are among evs, in order
OpsAmong(p, evs) == SelectSeq(ops[p], LAMBDA e : e \in evs)

\* s is an initial part of t
IsPrefix(s, t) == Len(s) <= Len(t) /\ s = SubSeq(t, 1, Len(s))

\* the call of p has got past its trust validation
PastValidation(p) == pc[p] \notin {"idle", "validate"}

\* builder_url[p] was trusted, and was cached, when the call of p started
TrustedAtCall(p) == is_url_trusted(pre[p].trust_file, builder_url[p])

CachedAtCall(p) == is_builder_cached(pre[p].cache, builder_url[p])

\* ensure_builder_available has raised in the call of p
EnsureFailed(p) == pc[p] = "returned" /\ result[p] \notin {"exited", "not_found", "spawn_error"}

\* ensure_builder_available has returned normally in the call of p
EnsureReturned(p) ==
    \/ pc[p] = "spawn"
    \/ pc[p] = "returned" /\ result[p] \in {"exited", "not_found", "spawn_error"}

\* C1: a call for a locator that is not trusted when the call is made fails
\* with a trust error, having done nothing but the validation: no scratch
\* directory, no fetch, no build, no cache write; the cache and the trust file
\* are as they were before the call.
C1_TrustGate ==
    \A p \in Procs :
        (PastValidation(p) /\ ~TrustedAtCall(p)) =>
            /\ pc[p] = "returned"
            /\ result[p] = "trust_error"
            /\ ops[p] = <<"validate">>
            /\ ~scratch[p].exists
            /\ cache = pre[p].cache
            /\ trust_file = pre[p].trust_file

C1_Witness ==
    \E p \in Procs :
        pc[p] = "returned" /\ result[p] = "trust_error" /\ ~TrustedAtCall(p)

\* C2: the executable is spawned only in a call whose own trust validation
\* came first and succeeded, cached or not; a run for a locator whose domain is
\* not trusted fails with exit code 1 and spawns nothing.
C2_SpawnOnlyAfterValidation ==
    \A p \in Procs :
        /\ (pc[p] = "spawn" \/ InList("spawn", ops[p])) =>
              /\ TrustedAtCall(p)
              /\ ops[p] /= <<>> /\ ops[p][1] = "validate"
        /\ (pc[p] = "returned" /\ ~TrustedAtCall(p)) =>
              /\ result[p] = "trust_error"
              /\ exit_code[p] = 1
              /\ ~InList("spawn", ops[p])

\* trust was withdrawn after the executable was cached, and run refused
C2_Witness ==
    \E p \in Procs :
        /\ pc[p] = "returned"
        /\ result[p] = "trust_error"
        /\ CachedAtCall(p)
        /\ cache[get_builder_cache_dir(builder_url[p])].exec

\* C3: the cache entry is written only after a fully successful build: a call
\* that fails or is interrupted in the fetch or in the build leaves the cache as
\* it was, the locator not cached; no entry is there while the fetch or the
\* build runs; and an entry that appears in a call follows a fetch that
\* succeeded and a cargo run that exited 0 and left the executable.
C3_StoreOnlyAfterBuild ==
    \A p \in Procs :
        /\ (pc[p] = "returned" /\
            result[p] \in {"acquire_error", "acquire_interrupt", "no_manifest",
                           "cargo_failed", "build_interrupt", "exe_missing"}) =>
              /\ ~is_builder_cached(cache, builder_url[p])
              /\ cache = pre[p].cache
        /\ pc[p] \in {"acquire", "build", "store", "store_copy"} =>
              ~is_builder_cached(cache, builder_url[p])
        /\ (pc[p] /= "idle" /\ cache /= pre[p].cache) =>
              /\ env[p].fetch = "ok"
              /\ env[p].cargo = "exit0"
              /\ env[p].exe /= 0

C3_Witness ==
    \E p \in Procs :
        /\ pc[p] = "returned"
        /\ result[p] = "cargo_failed"
        /\ scratch[p] = NoScratch
        /\ ~is_builder_cached(cache, builder_url[p])

\* C4: a call for a trusted locator that is already cached returns from
\* ensure_builder_available with the validation as its only step: no scratch
\* directory, no fetch, no build, no store, and the cache unchanged.
C4_CacheHit ==
    \A p \in Procs :
        (pc[p] \notin {"idle", "validate", "check_cache"}
            /\ TrustedAtCall(p) /\ CachedAtCall(p)) =>
            /\ EnsureReturned(p)
            /\ OpsAmong(p, {"validate", "mkdtemp", "acquire", "cargo", "store",
                            "mkdir", "copy2", "chmod", "rmtree"}) = <<"validate">>
            /\ ~scratch[p].exists
            /\ cache = pre[p].cache

C4_Witness ==
    \E p \in Procs :
        pc[p] = "spawn" /\ TrustedAtCall(p) /\ CachedAtCall(p) /\ ops[p] = <<"validate">>

\* C5: in one call the fetch, the cargo run and the store happen in that
\* order, each at most once: cargo runs only after the fetch succeeded, the
\* store starts only after cargo exited 0 and left the executable, and nothing
\* is tried a second time.
C5_StepOrder ==
    \A p \in Procs :
        /\ IsPrefix(OpsAmong(p, {"acquire", "cargo", "store"}),
                    <<"acquire", "cargo", "store">>)
        /\ IsPrefix(OpsAmong(p, {"mkdtemp", "acquire"}), <<"mkdtemp", "acquire">>)
        /\ InList("cargo", ops[p]) => env[p].fetch = "ok"
        /\ InList("store", ops[p]) => (env[p].cargo = "exit0" /\ env[p].exe /= 0)
        /\ InList("acquire", ops[p]) => (TrustedAtCall(p) /\ ~CachedAtCall(p))

C5_Witness ==
    \E p \in Procs :
        /\ OpsAmong(p, {"acquire", "cargo", "store"}) = <<"acquire", "cargo", "store">>
        /\ pc[p] = "spawn"

\* C6: when ensure_builder_available returns normally the locator is cached:
\* the file run_builder spawns next exists.
C6_EnsuredIsCached ==
    \A p \in Procs :
        pc[p] = "spawn" =>
            /\ is_builder_cached(cache, builder_url[p])
            /\ cache[<<caret_encode_url(builder_url[p])>>].kind = "file"

\* the call that has just built and stored the executable
C6_Witness ==
    \E p \in Procs :
        pc[p] = "spawn" /\ ~CachedAtCall(p) /\ InList("chmod", ops[p])

\* C7: the scratch directory of a call is gone when ensure_builder_available
\* returns or raises, whichever step ended it; every mkdtemp of the call is
\* matched by one rmtree.
C7_ScratchRemoved ==
    \A p \in Procs :
        (EnsureReturned(p) \/ EnsureFailed(p)) =>
            /\ ~scratch[p].exists
            /\ Len(OpsAmong(p, {"mkdtemp"})) = Len(OpsAmong(p, {"rmtree"}))

\* the store failed under the scratch directory
C7_Witness ==
    \E p \in Procs :
        /\ pc[p] = "returned"
        /\ result[p] = "copy_error"
        /\ InList("mkdtemp", ops[p])
        /\ ~scratch[p].exists

\* the entry of url holds a regular file named builder
HasBuilderFile(c, u) ==
    c[<<caret_encode_url(u)>>].dir /\ c[<<caret_encode_url(u)>>].kind = "file"

\* C8: is_builder_cached is true exactly when the file builder in the directory
\* named by the encoded locator exists as a regular file; it is false for every
\* locator at the start, it becomes true only by a store of that locator, it is
\* true after a store that returned, and false after the locator was pruned.
C8_IsCached ==
    /\ \A u \in Locators : ~is_builder_cached(cache, u)
    /\ [][/\ \A u \in Locators :
                /\ is_builder_cached(cache', u) <=> HasBuilderFile(cache', u)
                /\ (~is_builder_cached(cache, u) /\ is_builder_cached(cache', u))
                      => (last'.op = "store" /\ last'.url = u)
          /\ (last'.op = "store" /\ last'.ret >= 0)
                => is_builder_cached(cache', last'.url)
          /\ (last'.op = "prune_builder" /\ last'.ret = 1)
                => ~is_builder_cached(cache', last'.url)]_vars

\* a store has just copied, and another locator has its directory but no file
C8_Witness ==
    /\ last.op = "store"
    /\ last.ret = 1
    /\ is_builder_cached(cache, last.url)
    /\ \E u \in Locators :
          cache[<<caret_encode_url(u)>>].dir /\ ~is_builder_cached(cache, u)

\* C9: a store for a locator that is already cached raises nothing, copies
\* nothing and leaves the whole cache as it is, so the content stays that of
\* the first store whatever source the second is given, and the number of entry
\* directories does not change.
C9_StoreIdempotent ==
    [][(last'.op = "store" /\ is_builder_cached(cache, last'.url)) =>
          /\ last'.ret = 0
          /\ cache' = cache
          /\ Cardinality({d \in DirNames : cache'[d].dir})
                = Cardinality({d \in DirNames : cache[d].dir})]_vars

\* the second store was given an executable other than the cached one
C9_Witness ==
    /\ last.op = "store"
    /\ last.ret = 0
    /\ last.arg \in Builds
    /\ cache[get_builder_cache_dir(last.url)].content \in Builds
    /\ cache[get_builder_cache_dir(last.url)].content /= last.arg

\* the age of the cached file of entry d at time t
EntryAge(c, d, t) == t - get_file_age(c[d], t)

\* C10: prune_cache(max_age) removes every entry whose age is at least
\* max_age, an age equal to max_age included, and keeps every younger entry.
C10_PruneAtLeastMaxAge ==
    [][last'.op = "prune_cache" =>
          \A d \in DirNames :
              (cache[d].dir /\ cache[d].kind = "file") =>
                  IF EntryAge(cache, d, now) >= last'.arg
                  THEN ~cache'[d].dir
                  ELSE cache'[d] = cache[d]]_vars

\* the entry directories that hold their executable file
EntriesWithFile(c) == {d \in DirNames : c[d].dir /\ c[d].kind = "file"}

\* C11: prune_cache(0) on a cache with N entries removes all N and returns N,
\* whatever their timestamps, entries stored at the current instant included;
\* afterwards no locator is cached.
C11_PruneZeroClears ==
    [][(last'.op = "prune_cache" /\ last'.arg = 0) =>
          /\ last'.ret = Cardinality(EntriesWithFile(cache))
          /\ EntriesWithFile(cache') = {}
          /\ \A u \in Locators : ~is_builder_cached(cache', u)]_vars

UserUrls(file) ==
    SelectSeq(all_trusted_urls(file), LAMBDA u : ~InList(u, builtin_trusted_urls))

\* C13: the built-in locator stays trusted whatever is added and removed: it
\* is always in all_trusted_urls and is_url_trusted of it is true;
\* remove_trusted_url of it returns false and changes nothing.
C13_BuiltinIrremovable ==
    /\ [](/\ InList(BuiltinUrl, all_trusted_urls(trust_file))
          /\ is_url_trusted(trust_file, BuiltinUrl))
    /\ [][(last'.op = "remove" /\ last'.url = BuiltinUrl) =>
             /\ last'.ret = 0
             /\ trust_file' = trust_file]_vars

\* the removal of the built-in locator was refused while the user list was not
\* empty
C13_Witness ==
    /\ last.op = "remove"
    /\ last.url = BuiltinUrl
    /\ last.ret = 0
    /\ UserUrls(trust_file) /= <<>>

\* C14: add_trusted_url of a locator already in the list, built-in or
\* user-added, returns false and leaves the file as it is; otherwise it returns
\* true and the list is the old list with the locator appended, every locator
\* added before still there.
C14_Add ==
    [][last'.op = "add" =>
          IF InList(last'.url, all_trusted_urls(trust_file))
          THEN /\ last'.ret = 0
               /\ trust_file' = trust_file
          ELSE /\ last'.ret = 1
               /\ UserUrls(trust_file') = Append(UserUrls(trust_file), last'.url)
               /\ all_trusted_urls(trust_file')
                     = Append(all_trusted_urls(trust_file), last'.url)]_vars

\* a third locator was added to two that are kept
C14_Witness ==
    /\ last.op = "add"
    /\ last.ret = 1
    /\ Len(UserUrls(trust_file)) = 3
    /\ UserUrls(trust_file)[3] = last.url

\* C15: remove_trusted_url of a locator that is not in the list returns false
\* and leaves the list as it is; of a user-added locator it returns true, the
\* locator is gone from all_trusted_urls and every other user-added locator is
\* still there.
C15_Remove ==
    [][last'.op = "remove" =>
          IF ~InList(last'.url, all_trusted_urls(trust_file))
          THEN /\ last'.ret = 0
               /\ all_trusted_urls(trust_file') = all_trusted_urls(trust_file)
          ELSE InList(last'.url, UserUrls(trust_file)) =>
               /\ last'.ret = 1
               /\ ~InList(last'.url, all_trusted_urls(trust_file'))
               /\ UserUrls(trust_file')
                     = SelectSeq(UserUrls(trust_file), LAMBDA u : u /= last'.url)]_vars

\* a user-added locator was removed and two others are still listed
C15_Witness ==
    /\ last.op = "remove"
    /\ last.ret = 1
    /\ Len(UserUrls(trust_file)) = 2
    /\ ~InList(last.url, all_trusted_urls(trust_file))

\* the host[:port] each locator of TrustLocators is written with, lower-cased
HostPortOf(u) ==
    CASE u = BuiltinUrl  -> "github.com"
      [] u = ZipUrl      -> "example.com"
      [] u = GitUrl      -> "example.com"
      [] u = PortUrl     -> "example.com:8443"
      [] u = UserinfoUrl -> "github.com"

\* C16: trust is by domain: a locator is trusted exactly when its host[:port]
\* is, whatever the case, the host[:port] of a locator of the trust list; one
\* with the host[:port] of a trusted locator and another path is trusted, one
\* whose host[:port] matches no trusted locator is not.
C16_TrustByDomain ==
    \A u \in TrustLocators :
        is_url_trusted(trust_file, u) <=>
            \E i \in 1..Len(all_trusted_urls(trust_file)) :
                HostPortOf(u) = HostPortOf(all_trusted_urls(trust_file)[i])

\* the host[:port] of the locator written from the parts k: none when there is
\* no authority or the host is malformed
HostPortOfParts(k) ==
    IF k.authority /\ k.host /= <<91, 104>> THEN Lower(k.host \o k.port) ELSE <<>>

\* C17: _extract_domain never fails; it returns the lower-cased host[:port] of
\* a locator that parses as a URL, without scheme, user information, path,
\* query or fragment, and the empty string for a malformed locator.
C17_DomainOf ==
    probe.called =>
        /\ ~probe.raised
        /\ \A k \in DomainCases :
              UrlOf(k) = probe.url => probe.domain = HostPortOfParts(k)

\* the parts of the locator the fetch under way was called with
FetchCase == CHOOSE k \in FetchCases : k.url = fetcher.url

\* the handler the precedence rules give for the locator written from k, and
\* what it receives
HandlerFor(k) ==
    IF k.prefix.kind = "file_url"
    THEN [fn |-> "_handle_file_url", arg |-> k.prefix.rest \o k.body.text]
    ELSE IF k.prefix.kind = "path"
    THEN [fn |-> "_handle_file_url", arg |-> k.url]
    ELSE IF k.body.git
    THEN [fn |-> "clone_and_checkout_git", arg |-> k.url]
    ELSE [fn |-> "download_and_extract_archive", arg |-> k.url]

\* C18: download_or_clone_source calls exactly one handler, chosen in this
\* order: a "file://" locator goes to the local handler with what follows the
\* prefix; a locator starting with "/", "./", "../" or a drive letter goes to the
\* local handler; otherwise one whose part before '#' ends with ".git" goes to
\* Git, whole; otherwise it goes to the archive download.  git runs only under
\* the Git handler.
C18_Dispatch ==
    fetcher.pc /= "idle" =>
        /\ fetcher.calls = <<HandlerFor(FetchCase)>>
        /\ fetcher.git /= <<>> => fetcher.calls[1].fn = "clone_and_checkout_git"

\* a local path that ends with ".git" was handled as a local path
C18_Witness ==
    /\ fetcher.pc = "done"
    /\ FetchCase.prefix.kind = "path"
    /\ FetchCase.body.git
    /\ fetcher.calls[1].fn = "_handle_file_url"

\* the locator under way is a remote Git locator
RemoteGit == FetchCase.prefix.kind = "remote" /\ FetchCase.body.git

\* C19: for a Git locator with a reference, git clone runs once, on what
\* precedes the first '#'; then git checkout runs exactly once, on the
\* reference; main and master are not tried, and a failed checkout fails the
\* fetch.
C19_GitReference ==
    (fetcher.pc /= "idle" /\ RemoteGit /\ FetchCase.body.ref /= <<>>) =>
        LET g == fetcher.git
            k == FetchCase
        IN  /\ fetcher.calls[1].fn = "clone_and_checkout_git"
            /\ Len(g) <= 2
            /\ fetcher.pc \in {"checkout", "done", "failed"} => Len(g) >= 1
            /\ Len(g) >= 1 =>
                  g[1] \in [cmd : {"clone"}, arg : {k.prefix.text \o k.body.base},
                            rc : GitExitCodes]
            /\ Len(g) = 2 =>
                  /\ g[1].rc = 0
                  /\ g[2] \in [cmd : {"checkout"}, arg : {k.body.ref},
                               rc : GitExitCodes]
            /\ fetcher.pc = "done" => (Len(g) = 2 /\ g[2].rc = 0)
            /\ fetcher.pc = "failed" =>
                  /\ g[Len(g)].rc /= 0
                  /\ g[1].rc = 0 => Len(g) = 2

\* the checkout of the reference "a#b" failed
C19_Witness ==
    /\ fetcher.pc = "failed"
    /\ RemoteGit
    /\ FetchCase.body.ref = <<97, 35, 98>>
    /\ Len(fetcher.git) = 2
    /\ fetcher.git[2].arg = <<97, 35, 98>>
    /\ fetcher.err = "checkout_failed"

\* C20: for a Git locator without a reference, nothing is checked out when the
\* clone failed; after a clone that succeeded main is checked out first, master
\* only when main failed; the first success ends the fetch without error; when
\* both fail the fetch fails because neither main nor master exists.
C20_GitDefaultBranch ==
    (fetcher.pc /= "idle" /\ RemoteGit /\ FetchCase.body.text = FetchCase.body.base) =>
        LET g == fetcher.git
        IN  /\ fetcher.calls[1].fn = "clone_and_checkout_git"
            /\ Len(g) <= 3
            /\ fetcher.pc \in {"checkout", "done", "failed"} => Len(g) >= 1
            /\ Len(g) >= 1 => g[1].cmd = "clone"
            /\ Len(g) >= 2 =>
                  /\ g[1].rc = 0
                  /\ g[2].cmd = "checkout"
                  /\ g[2].arg = <<109, 97, 105, 110>>
            /\ Len(g) = 3 =>
                  /\ g[2].rc /= 0
                  /\ g[3].cmd = "checkout"
                  /\ g[3].arg = <<109, 97, 115, 116, 101, 114>>
            /\ fetcher.pc = "done" =>
                  (Len(g) >= 2 /\ g[Len(g)].rc = 0 /\ fetcher.err = "none")
            /\ fetcher.pc = "failed" =>
                  \/ Len(g) = 1 /\ g[1].rc /= 0 /\ fetcher.err = "clone_failed"
                  \/ /\ Len(g) = 3
                     /\ g[3].rc /= 0
                     /\ fetcher.err = "no_default_branch"

\* main failed and master was checked out
C20_Witness ==
    /\ fetcher.pc = "done"
    /\ RemoteGit
    /\ FetchCase.body.text = FetchCase.body.base
    /\ Len(fetcher.git) = 3
    /\ fetcher.git[3].arg = <<109, 97, 115, 116, 101, 114>>

\* t occurs in s as a run of consecutive characters
HasSubstring(s, t) ==
    \E i \in 0..(Len(s) - Len(t)) : SubSeq(s, i + 1, i + Len(t)) = t

\* C21: when clone_and_checkout_git has returned or raised (clone failure,
\* failed checkout of the reference, both default branches failing, success)
\* the working directory of the process is the one before the call.
C21_CwdRestored ==
    fetcher.pc \in {"idle", "done", "failed"} => fetcher.cwd = "original"

C21_Witness ==
    /\ fetcher.pc = "failed"
    /\ fetcher.err = "no_default_branch"
    /\ Len(fetcher.git) = 3
    /\ fetcher.cwd = "original"

\* C22: a remote archive URL without one of the three extensions fails with
\* the unsupported-format error, whose message names .zip, .tar.gz and .tgz,
\* with no temporary file made and no download attempted; for a supported URL
\* the temporary file is made and is gone when the operation ends, whether
\* the download and the extraction succeeded or raised.
C22_RemoteArchive ==
    (/\ fetcher.pc \in {"done", "failed"}
     /\ fetcher.calls[1].fn = "download_and_extract_archive")
    => IF SupportedArchive(fetcher.calls[1].arg)
       THEN /\ fetcher.err \in {"none", "download_error", "extract_error"}
            /\ Len(fetcher.events) >= 3
            /\ fetcher.events[1] = "mktemp"
            /\ fetcher.events[2] = "urlretrieve"
            /\ fetcher.events[Len(fetcher.events)] = "unlink"
            /\ ~fetcher.tmpfile
       ELSE /\ fetcher.pc = "failed"
            /\ fetcher.err = "unsupported_archive"
            /\ HasSubstring(fetcher.msg, <<46, 122, 105, 112>>)
            /\ HasSubstring(fetcher.msg, <<46, 116, 97, 114, 46, 103, 122>>)
            /\ HasSubstring(fetcher.msg, <<46, 116, 103, 122>>)
            /\ fetcher.events = <<>>
            /\ ~fetcher.tmpfile
            /\ fetcher.dest = fetcher.before

C22_Witness ==
    /\ fetcher.pc = "failed"
    /\ fetcher.err = "extract_error"
    /\ fetcher.events = <<"mktemp", "urlretrieve", "extract", "unlink">>
    /\ ~fetcher.tmpfile

\* C23: _handle_file_url extracts an existing regular file ending in .zip,
\* .tar.gz or .tgz into dest_dir and copies an existing directory into it,
\* the files of the source replacing those of the same name and the others
\* staying; a path that does not exist fails with the not-found error and a
\* regular file with another extension with the unsupported-type error, and
\* in both failing cases dest_dir holds what it held.
C23_LocalPath ==
    (/\ fetcher.pc \in {"done", "failed"}
     /\ fetcher.calls[1].fn = "_handle_file_url")
    => LET p == fetcher.source
           archive == SupportedArchive(fetcher.calls[1].arg)
       IN  /\ p.kind = "missing"
               => fetcher.err = "not_found" /\ fetcher.dest = fetcher.before
           /\ (p.kind = "file" /\ ~archive)
               => (/\ fetcher.err = "unsupported_type"
                   /\ fetcher.dest = fetcher.before)
           /\ (p.kind = "dir" \/ (p.kind = "file" /\ archive))
               => (/\ fetcher.err \in {"none", "file_error"}
                   /\ fetcher.err = "none"
                       => \A n \in DestNames :
                             fetcher.dest[n] = IF p.tree[n] /= 0 THEN 2
                                               ELSE fetcher.before[n])

C23_Witness ==
    /\ fetcher.pc = "done"
    /\ fetcher.calls[1].fn = "_handle_file_url"
    /\ fetcher.source.kind = "dir"
    /\ \E n, m \in DestNames :
          /\ fetcher.before[n] = 1 /\ fetcher.source.tree[n] = 2
          /\ fetcher.dest[n] = 2
          /\ fetcher.before[m] = 1 /\ fetcher.source.tree[m] = 0
          /\ fetcher.dest[m] = 1

C25_RunExitCode ==
    [][(pc[1] = "spawn" /\ pc'[1] = "returned")
       => LET e == cache[get_builder_cache_dir(builder_url[1])]
              found == e.dir /\ e.kind = "file"
          IN  /\ result'[1] \in {"exited", "not_found", "spawn_error"}
              /\ result'[1] = "exited"
                  => (/\ found
                      /\ env'[1].child \in 0..MaxExit
                      /\ exit_code'[1] = env'[1].child)
              /\ ~found => result'[1] = "not_found"
              /\ result'[1] /= "exited"
                  => exit_code'[1] = 1 /\ env'[1].child = -1]_vars

C25_Witness ==
    /\ pc[1] = "returned"
    /\ result[1] = "not_found"
    /\ exit_code[1] = 1
    /\ last.op = "prune_builder"
    /\ last.url = builder_url[1]

\* what the documentation of the codec gives for each character of
\* EncodeChars: itself for alphanumerics and - _ ` { } . ~, else '^' and the
\* code point in upper-case hexadecimal, 2 digits up to U+00FF, 'g' and 3
\* up to U+0FFF, 'h' and 4 up to U+FFFF, 'i' and 5 up to U+FFFFF, 'j' and 6
\* above
ExpectedEncoding(c) ==
    CASE c = 58 -> <<94, 51, 65>>
      [] c = 47 -> <<94, 50, 70>>
      [] c = 32 -> <<94, 50, 48>>
      [] c = 64 -> <<94, 52, 48>>
      [] c = 35 -> <<94, 50, 51>>
      [] c = 94 -> <<94, 53, 69>>
      [] c = 10 -> <<94, 48, 65>>
      [] c = 215 -> <<94, 68, 55>>
      [] c = 768 -> <<94, 103, 51, 48, 48>>
      [] c = 4095 -> <<94, 103, 70, 70, 70>>
      [] c = 8364 -> <<94, 104, 50, 48, 65, 67>>
      [] c = 65535 -> <<94, 104, 70, 70, 70, 70>>
      [] c = 128512 -> <<94, 105, 49, 70, 54, 48, 48>>
      [] c = 1048575 -> <<94, 105, 70, 70, 70, 70, 70>>
      [] c = 1048576 -> <<94, 106, 49, 48, 48, 48, 48, 48>>
      [] c = 1114111 -> <<94, 106, 49, 48, 70, 70, 70, 70>>
      [] OTHER -> <<c>>

\* the characters of EncodeChars that are emitted unchanged
SafeChars == {97, 90, 55, 45, 95, 96, 123, 125, 46, 126, 233, 255, 256, 4096,
              20013, 65536}

\* C26: the encoding of a text is the encodings of its characters, in order,
\* each as the documentation gives it (':' is ^3A, '/' is ^2F, ' ' is ^20,
\* '@' is ^40, '#' is ^23, '^' is ^5E); a text of safe characters encodes to
\* itself; every text has an encoding.
C26_Encode ==
    codec.pc = "done"
    => LET expected[i \in 0..Len(codec.a)] ==
               IF i = 0 THEN <<>>
               ELSE expected[i - 1] \o ExpectedEncoding(codec.a[i])
       IN  /\ codec.ea = expected[Len(codec.a)]
           /\ (\A i \in 1..Len(codec.a) : codec.a[i] \in SafeChars)
               => codec.ea = codec.a
           /\ (\A i \in 1..Len(codec.a) : codec.a[i] \notin SafeChars)
               => /\ Len(codec.ea) >= 3 * Len(codec.a)
                  /\ \A i \in 1..Len(codec.ea) :
                        codec.ea[i] \in {94, 103, 104, 105, 106}
                                         \cup (48..57) \cup (65..70)

C26_Witness ==
    /\ codec.pc = "done"
    /\ codec.a = <<128512, 58>>
    /\ codec.ea = <<94, 105, 49, 70, 54, 48, 48, 94, 51, 65>>

\* the encodings of two different locators differ
EncodeInjective ==
    codec.pc = "done" /\ codec.a /= codec.b => codec.ea /= codec.eb

\* C27: two different locators have different encoded identities, different
\* cache entry directories and different executable paths, and the entry
\* directory of the one is not the executable path of the other.
C27_DistinctEntries ==
    /\ EncodeInjective
    /\ codec.pc = "done" /\ codec.a /= codec.b
       => /\ codec.da /= codec.db
          /\ codec.xa /= codec.xb
          /\ codec.da /= codec.xb

\* the call of p met something the scenario excludes: a copy of the source
\* that failed, a tree without Cargo.toml or without a prebuilt
\* target/release/builder, a cargo run that did not exit zero, or a failed
\* copy into the cache
OutsideScenario(p) ==
    \/ env[p].fetch \in {"error", "interrupt"}
    \/ env[p].fetch = "ok" /\ (~env[p].tree.manifest \/ env[p].tree.exe = 0)
    \/ env[p].cargo \in {"exit1", "interrupt"}
    \/ env[p].copy = "io_error"

C29_MainReturns ==
    main_call.pc = "done"
    => /\ main_call.ended = "returned"
       /\ main_call.config /= "ok" => main_call.code = 1
       /\ (/\ main_call.config = "ok"
           /\ main_call.command \notin MaintenanceCommands)
          => main_call.code =
                IF main_call.ensure /= "none" \/ main_call.spawn = -1 THEN 1
                ELSE main_call.spawn
       /\ (/\ main_call.config = "ok"
           /\ main_call.command \in MaintenanceCommands)
          => main_call.code \in {0, 1}

\* the text is ASCII digits followed by one of s, m, h, d in either case
WellFormedTimeSpec(t) ==
    /\ Len(t) >= 2
    /\ \A i \in 1..(Len(t) - 1) : t[i] \in 48..57
    /\ t[Len(t)] \in {115, 109, 104, 100, 83, 77, 72, 68}

\* the number the digits before the unit write
AmountOf(t) ==
    LET n == Len(t) - 1
        sum[i \in 0..n] ==
            IF i = 0 THEN 0 ELSE sum[i - 1] + (t[i] - 48) * 10^(n - i)
    IN  sum[n]

\* the seconds of one unit
SecondsPer(c) ==
    IF c \in {115, 83} THEN 1
    ELSE IF c \in {109, 77} THEN 60
    ELSE IF c \in {104, 72} THEN 3600
    ELSE 86400

\* C30: _parse_time_spec accepts exactly the texts made of decimal digits and
\* one unit s, m, h or d in either case, with an amount above zero, and gives
\* the amount times 1, 60, 3600 or 86400 seconds; for every other text it
\* raises ValueError, and --cache-prune-older-than returns 1 and prunes
\* nothing.
C30_TimeSpec ==
    prune_cmd.pc = "done"
    => IF WellFormedTimeSpec(prune_cmd.text) /\ AmountOf(prune_cmd.text) > 0
       THEN /\ prune_cmd.ok
            /\ prune_cmd.seconds =
                  AmountOf(prune_cmd.text)
                      * SecondsPer(prune_cmd.text[Len(prune_cmd.text)])
            /\ prune_cmd.code = 0
       ELSE /\ ~prune_cmd.ok
            /\ prune_cmd.code = 1
            /\ ~prune_cmd.pruned

\* entry d, as the cache c holds it at time t, is older than max_age
MeetsAge(c, d, max_age, t) ==
    /\ c[d].dir
    /\ c[d].kind /= "none"
    /\ get_file_age(c[d], t) < t - max_age

\* C31: a prune_cache call in which the inspection or the removal of some
\* entries fails does not stop: it returns, every entry that is older than
\* max_age and with which nothing goes wrong is removed, and the count it
\* returns is the number of entry directories it removed.
C31_PruneTolerant ==
    [][prune_cmd'.pc = "pruned"
       => /\ ~prune_cmd'.raised
          /\ \A d \in PruneDirs :
                (MeetsAge(cache, d, prune_cmd'.max_age, now)
                    /\ prune_cmd'.fault[d] = "none")
                => ~cache'[d].dir
          /\ prune_cmd'.ret =
                Cardinality({d \in DirNames : cache[d].dir /\ ~cache'[d].dir})]_vars

\* the entry of the locator of the two invocations
RaceEntry == cache[get_builder_cache_dir(RaceUrl)]

\* C32: nothing keeps two invocations of ensure_builder_available for the
\* same locator apart: whenever the copy of an invocation ends, the entry
\* holds the executable that invocation built, whatever another invocation
\* has written into it before.
C32_LastWriterWins ==
    [][\A p \in Procs :
          (pc[p] = "store_copy" /\ pc'[p] = "store_chmod")
          => /\ is_builder_cached(cache', builder_url[p])
             /\ cache'[get_builder_cache_dir(builder_url[p])].content = built[p]]_vars

\* C32: both invocations found the locator trusted and not cached, both
\* fetched and built, both passed the already-cached check of the store before
\* the other copied (the cache was empty when the second was called and nothing
\* was pruned since), both copied, and the entry holds the executable of the
\* invocation that copied last, here the first.
C32_Witness ==
    /\ \A p \in Procs :
          /\ builder_url[p] = RaceUrl
          /\ InList("acquire", ops[p])
          /\ InList("cargo", ops[p])
          /\ InList("mkdir", ops[p])
          /\ InList("copy2", ops[p])
          /\ env[p].copy = "ok"
    /\ pre[2].cache = EmptyCache
    /\ last.op = "call"
    /\ built[1] /= built[2]
    /\ RaceEntry.content = built[1]
    /\ pc[2] = "returned"

\* the entry d of the cache c is Present: <d>/builder is a file
Present(c, d) == c[d].dir /\ c[d].kind = "file"

\* the step removes the file of entry d or writes it
RemovedOrWritten(d) ==
    \/ ~Present(cache', d)
    \/ cache'[d].content /= cache[d].content
    \/ cache'[d].mtime /= cache[d].mtime

\* the step is a step of no invocation of run_builder: a command or a call of
\* the API, which last' names
ApiStep == pc' = pc /\ env' = env

\* the step is a prune
PruneStep == ApiStep /\ last'.op \in {"prune_cache", "prune_builder"}

\* the step is invocation p's store going on with the file it has opened
OwnStoreStep(p, d) ==
    /\ d = get_builder_cache_dir(builder_url[p])
    /\ InList("cargo", ops[p])
    /\ \/ pc[p] = "store_copy" /\ env[p].copy = "open" /\ pc'[p] /= pc[p]
       \/ pc[p] = "store_chmod"

\* the step is invocation p's store opening the file of entry d
StoreOpenStep(p, d) ==
    /\ d = get_builder_cache_dir(builder_url[p])
    /\ InList("cargo", ops[p])
    /\ pc[p] = "store_copy" /\ env[p].copy = "none" /\ env'[p].copy = "open"

\* C33: a Present entry becomes Absent only through a prune, an Absent entry
\* becomes Present only through a store that follows a successful build, and
\* nothing but a prune removes or overwrites a Present entry: not
\* ensure_builder_available, not run_builder, not a store on a cached locator,
\* not a trust operation.  (A store going on with the file it has created
\* itself is not an overwrite.)
C33_Lifecycle ==
    [][\A d \in DirNames :
          /\ (Present(cache, d) /\ ~Present(cache', d)) => PruneStep
          /\ (~Present(cache, d) /\ Present(cache', d))
                => \/ ApiStep /\ last'.op = "store" /\ last'.ret /= 0
                   \/ \E p \in Procs : StoreOpenStep(p, d)
          /\ (Present(cache, d) /\ RemovedOrWritten(d))
                => \/ PruneStep
                   \/ \E p \in Procs : OwnStoreStep(p, d)]_vars

\* the locators the trusted_urls file holds, in file order: its lines without
\* the blanks around them, the empty lines and the '#' lines left out
PersistedLocators(file) ==
    LET keep[i \in 0..Len(file.lines)] ==
            IF i = 0 THEN <<>>
            ELSE LET l == Strip(file.lines[i])
                 IN  IF l = <<>> \/ l[1] = 35 THEN keep[i - 1]
                     ELSE Append(keep[i - 1], l)
    IN  keep[Len(file.lines)]

\* C34: whatever has been added and removed, the persisted trust file holds
\* no built-in locator, and all_trusted_urls() is the built-in list followed
\* by the locators of the file in file order.
C34_TrustFile ==
    /\ \A i \in 1..Len(PersistedLocators(trust_file)) :
          ~InList(PersistedLocators(trust_file)[i], builtin_trusted_urls)
    /\ all_trusted_urls(trust_file)
          = builtin_trusted_urls \o PersistedLocators(trust_file)

\* C35: after add_trusted_url(url) has returned True, all_trusted_urls()
\* contains url and add_trusted_url(url) called again returns False, whatever
\* text url is.
C35_AddRoundTrip ==
    [][(last'.op = "add" /\ last'.ret = 1)
       => /\ InList(last'.url, all_trusted_urls(trust_file'))
          /\ ~add_trusted_url(trust_file', last'.url).ret]_vars

\* C36: at every moment, also between the steps of a store of another
\* invocation, an entry for which is_builder_cached is true holds a complete
\* copy of a built executable with the owner-executable bit set.
C36_PublishedComplete ==
    \A u \in AllLocators :
        is_builder_cached(cache, u)
        => /\ cache[get_builder_cache_dir(u)].content \in Builds
           /\ cache[get_builder_cache_dir(u)].exec

\* C37: when one invocation's add_trusted_url of a new locator has returned
\* True and, from then on, the only step is an add_trusted_url of another
\* locator by the other invocation that returns True, both locators are in
\* the persisted trust list afterwards.
C37_NoLostUpdate ==
    [][\A p, q \in Procs :
          (/\ p /= q
           /\ pc[p] = "returned" /\ result[p] = "added"
           /\ InList(builder_url[p], all_trusted_urls(trust_file))
           /\ pc[q] = "add_write" /\ pc'[q] = "returned"
           /\ result'[q] = "added"
           /\ builder_url[q] /= builder_url[p])
          => /\ InList(builder_url[p], all_trusted_urls(trust_file'))
             /\ InList(builder_url[q], all_trusted_urls(trust_file'))]_vars

\* C38: a locator without a domain is trusted iff some trusted locator has
\* no domain; with the built-in locator alone none is trusted; and after
\* add_trusted_url of any locator without a domain has returned True every
\* locator without a domain is trusted.
C38_EmptyDomainClass ==
    [][/\ \A v \in EmptyDomainLocators :
             /\ extract_domain(v) = <<>>
             /\ is_url_trusted(trust_file', v)
                  <=> \E i \in 1..Len(all_trusted_urls(trust_file')) :
                         extract_domain(all_trusted_urls(trust_file')[i]) = <<>>
             /\ ~is_url_trusted(NoTrustFile, v)
       /\ (last'.op = "add" /\ last'.ret = 1 /\ extract_domain(last'.url) = <<>>)
             => \A v \in EmptyDomainLocators : is_url_trusted(trust_file', v)]_vars

\* the locator under way is a remote Git locator whose first '#' is followed
\* by nothing
EmptyReference ==
    /\ RemoteGit
    /\ FetchCase.body.text = Append(FetchCase.body.base, 35)
    /\ FetchCase.body.ref = <<>>

\* C39: a Git locator whose first '#' is followed by an empty reference is
\* handled as one without a reference: git clone runs on what precedes the
\* '#', then main is checked out, master only when main failed; the empty
\* string is never checked out, and the fetch fails only when the clone or
\* both checkouts failed.
C39_EmptyReference ==
    (fetcher.pc /= "idle" /\ EmptyReference) =>
        LET g == fetcher.git
            k == FetchCase
        IN  /\ fetcher.calls[1].fn = "clone_and_checkout_git"
            /\ Len(g) <= 3
            /\ fetcher.pc \in {"checkout", "done", "failed"} => Len(g) >= 1
            /\ Len(g) >= 1 =>
                  g[1] \in [cmd : {"clone"}, arg : {k.prefix.text \o k.body.base},
                            rc : GitExitCodes]
            /\ \A i \in 2..Len(g) :
                  /\ g[i].cmd = "checkout"
                  /\ g[i].arg /= <<>>
                  /\ g[i].arg = IF i = 2 THEN <<109, 97, 105, 110>>
                                ELSE <<109, 97, 115, 116, 101, 114>>
                  /\ g[i - 1].rc = IF i = 2 THEN 0 ELSE 1
            /\ fetcher.pc = "done" =>
                  (Len(g) >= 2 /\ g[Len(g)].rc = 0 /\ fetcher.err = "none")
            /\ fetcher.pc = "failed" =>
                  \/ Len(g) = 1 /\ g[1].rc /= 0 /\ fetcher.err = "clone_failed"
                  \/ Len(g) = 3 /\ g[3].rc /= 0 /\ fetcher.err = "no_default_branch"

\* "https://h/r.git#" was cloned as "https://h/r.git", main failed and master
\* was checked out
C39_Witness ==
    /\ fetcher.pc = "done"
    /\ EmptyReference
    /\ Len(fetcher.git) = 3
    /\ fetcher.git[1].arg = FetchCase.prefix.text \o FetchCase.body.base
    /\ fetcher.git[2].arg = <<109, 97, 105, 110>>
    /\ fetcher.git[3].arg = <<109, 97, 115, 116, 101, 114>>

====
